---- MODULE Spec2Model ----
(***************************************************************************)
(* A model of ark-service: the ARK parser/normaliser (ark.rs), the NCDA    *)
(* check character (check_character.rs) and the template resolver          *)
(* (shoulder.rs).                                                          *)
(*                                                                         *)
(* A Rust String is a sequence of characters; a character is written as a  *)
(* TLA+ string: "a", "/", ... for ASCII, and a named token such as         *)
(* "U+2013" for a character outside ASCII.  Positions are 0-based as in    *)
(* Rust and -1 stands for None.                                            *)
(***************************************************************************)
EXTENDS Integers, Sequences, FiniteSets, TLC

VARIABLES
    pc,        \* position of the driver of the operation under study
    input,     \* the string handed to parse_ark
    parsed,    \* Option<Ark> returned by parse_ark(input)
    input2,    \* a second spelling of the same identifier
    parsed2,   \* Option<Ark> returned by parse_ark(input2)
    identifier, \* the string handed to calculate_check_character
    checks,     \* its check character: as given, upper-cased and lower-cased
    candidate,  \* the string handed to validate_check_character
    kind,       \* how candidate was made
    valid,      \* what validate_check_character(candidate) did
    route_pattern, \* Shoulder.route_pattern of the configured shoulder
    load,          \* what validate_route_pattern did when the shoulder loaded
    location,      \* the string Shoulder::resolve returned
    target,        \* the string apply_template built inside resolve
    state,         \* AppState: naan, blade length, mint cap and the registry
    request,       \* MintRequest: shoulder and count
    response,      \* what mint_handler returned
    hint,          \* has_check_character of a validate request
    validation,    \* the ValidationResult of validate_ark
    requests       \* the requests the server holds, each with its response

parseVars == <<input, parsed, input2, parsed2>>

checkVars == <<identifier, checks, candidate, kind, valid>>

resolveVars == <<route_pattern, load, location, target>>

mintVars == <<state, request, response>>

apiVars == <<hint, validation, requests>>

vars == <<pc, parseVars, checkVars, resolveVars, mintVars, apiVars>>

(***************************************************************************)
(* Bounds of the model.                                                    *)
(***************************************************************************)
MaxTokens == 6

MaxEqTokens == 5

MaxPad == 27

MaxPatternTokens == 4

MaxArkTokens == 3

MaxSuffixTokens == 2

MaxTail == 2

MaxBladeLength == 2

MaxMintCount == 2

MaxValidateTokens == 3

MaxRequests == 2

(***************************************************************************)
(* str primitives                                                          *)
(***************************************************************************)
\* &s[a..b] and &s[a..]
Slice(s, a, b) == SubSeq(s, a + 1, b)

From(s, a) == SubSeq(s, a + 1, Len(s))

\* str::starts_with
StartsWith(s, p) == Len(s) >= Len(p) /\ SubSeq(s, 1, Len(p)) = p

\* str::find(char): position of the first occurrence, -1 for None
Find(s, c) ==
    IF \E i \in 1..Len(s) : s[i] = c
    THEN (CHOOSE i \in 1..Len(s) : s[i] = c /\ \A j \in 1..(i - 1) : s[j] # c) - 1
    ELSE -1

\* str::contains(char)
Contains(s, c) == \E i \in 1..Len(s) : s[i] = c

\* str::contains(&str)
ContainsStr(s, p) ==
    \E i \in 0..(Len(s) - Len(p)) : SubSeq(s, i + 1, i + Len(p)) = p

\* str::find(&str): byte position of the first match, -1 for None
FindStr(s, p) ==
    IF ContainsStr(s, p)
    THEN CHOOSE i \in 0..(Len(s) - Len(p)) :
            /\ SubSeq(s, i + 1, i + Len(p)) = p
            /\ \A j \in 0..(i - 1) : SubSeq(s, j + 1, j + Len(p)) # p
    ELSE -1

\* str::replace(from, to): non-overlapping matches, left to right, one pass
RECURSIVE Replace(_, _, _)
Replace(s, from, to) ==
    LET i == FindStr(s, from)
    IN  IF Len(from) = 0 \/ i = -1 THEN s
        ELSE Slice(s, 0, i) \o to \o Replace(From(s, i + Len(from)), from, to)

\* s.chars().filter(keep).collect()
RemoveChars(s, drop) ==
    LET keep(c) == c \notin drop
    IN  SelectSeq(s, keep)

\* s.split(c).next(): the text before the first c, all of s if there is none
BeforeFirst(s, c) == IF Find(s, c) = -1 THEN s ELSE Slice(s, 0, Find(s, c))

\* str::trim_end_matches(&[chars])
RECURSIVE TrimEndMatches(_, _)
TrimEndMatches(s, cs) ==
    IF Len(s) > 0 /\ s[Len(s)] \in cs
    THEN TrimEndMatches(SubSeq(s, 1, Len(s) - 1), cs)
    ELSE s

(***************************************************************************)
(* Character classes                                                       *)
(***************************************************************************)
\* char::is_ascii_digit
AsciiDigits == {"0", "1", "2", "3", "4", "5", "6", "7", "8", "9"}

\* char::is_whitespace (the members used here)
Whitespace == {" ", "\t", "\n"}

\* the ASCII hyphen and the six dash characters normalize_ark_string removes
Hyphens == {"-", "U+2010", "U+2011", "U+2012", "U+2013", "U+2014", "U+2015"}

UpperLetters ==
    {"A", "B", "C", "D", "E", "F", "G", "H", "I", "J", "K", "L", "M",
     "N", "O", "P", "Q", "R", "S", "T", "U", "V", "W", "X", "Y", "Z"}

LowerLetters ==
    {"a", "b", "c", "d", "e", "f", "g", "h", "i", "j", "k", "l", "m",
     "n", "o", "p", "q", "r", "s", "t", "u", "v", "w", "x", "y", "z"}

UpperSeq ==
    <<"A", "B", "C", "D", "E", "F", "G", "H", "I", "J", "K", "L", "M",
      "N", "O", "P", "Q", "R", "S", "T", "U", "V", "W", "X", "Y", "Z">>

LowerSeq ==
    <<"a", "b", "c", "d", "e", "f", "g", "h", "i", "j", "k", "l", "m",
      "n", "o", "p", "q", "r", "s", "t", "u", "v", "w", "x", "y", "z">>

\* char::to_ascii_lowercase / to_ascii_uppercase
ToAsciiLowercase(c) ==
    IF c \in UpperLetters
    THEN LowerSeq[CHOOSE i \in 1..26 : UpperSeq[i] = c]
    ELSE c

ToAsciiUppercase(c) ==
    IF c \in LowerLetters
    THEN UpperSeq[CHOOSE i \in 1..26 : LowerSeq[i] = c]
    ELSE c

\* str::to_lowercase over the characters of the model
ToLowercase(s) == [i \in 1..Len(s) |-> ToAsciiLowercase(s[i])]

(***************************************************************************)
(* ark.rs                                                                  *)
(***************************************************************************)
ARK_PREFIX == <<"a", "r", "k", ":">>

ARK_SLASH == <<"a", "r", "k", ":", "/">>

NoneArk == [some |-> FALSE]

\* mutant: the scan never reports None
extract_shoulder_NeverNone(path) ==
    IF \E i \in 1..Len(path) : path[i] \in AsciiDigits
    THEN SubSeq(path, 1,
                CHOOSE i \in 1..Len(path) :
                    /\ path[i] \in AsciiDigits
                    /\ \A j \in 1..(i - 1) : path[j] \notin AsciiDigits)
    ELSE path \o <<"0">>

\* extract_shoulder: up to and including the first ASCII digit; <<>> for None
\* (a shoulder that is Some always holds its digit, so <<>> is free)
extract_shoulder(path) ==
    IF \E i \in 1..Len(path) : path[i] \in AsciiDigits
    THEN SubSeq(path, 1,
                CHOOSE i \in 1..Len(path) :
                    /\ path[i] \in AsciiDigits
                    /\ \A j \in 1..(i - 1) : path[j] \notin AsciiDigits)
    ELSE <<>>

\* normalize_ark_string, step by step as the code does it
normalize_ark_string(ark) ==
    LET noQuery   == BeforeFirst(ark, "?")
        collapsed == Replace(noQuery, ARK_SLASH, ARK_PREFIX)
        noSpace   == RemoveChars(collapsed, Whitespace)
        noHyphen  == RemoveChars(noSpace, Hyphens)
        slash_pos == Find(noHyphen, "/")
        lowered   == IF slash_pos > 4
                     THEN ARK_PREFIX
                          \o ToLowercase(Slice(noHyphen, 4, slash_pos))
                          \o From(noHyphen, slash_pos)
                     ELSE noHyphen
    IN  TrimEndMatches(lowered, {"/", "."})

\* the blade and the qualifier of parse_ark, from the text after the shoulder
SplitBlade(after_shoulder) ==
    LET slash     == Find(after_shoulder, "/")
        blade_end == IF slash # -1 THEN slash ELSE Find(after_shoulder, "?")
    IN  IF blade_end # -1
        THEN [blade     |-> Slice(after_shoulder, 0, blade_end),
              qualifier |-> IF after_shoulder[blade_end + 1] = "/"
                            THEN From(after_shoulder, blade_end + 1)
                            ELSE From(after_shoulder, blade_end)]
        ELSE [blade |-> after_shoulder, qualifier |-> <<>>]

\* mutant: the scan runs over the query string too
ShoulderScanText_WithQuery(rest) == rest

\* the text the shoulder scan of parse_ark runs over
ShoulderScanText(rest) == BeforeFirst(rest, "?")

parse_ark(ark) ==
    LET original_form == Replace(ark, ARK_SLASH, ARK_PREFIX)
    IN  IF ~StartsWith(original_form, ARK_PREFIX) THEN NoneArk
        ELSE
        LET original_remainder == From(original_form, 4)
            slash == Find(original_remainder, "/")
        IN  IF slash = -1 THEN NoneArk
            ELSE
            LET naan     == Slice(original_remainder, 0, slash)
                rest     == From(original_remainder, slash + 1)
                shoulder == extract_shoulder(ShoulderScanText(rest))
            IN  IF shoulder = <<>> THEN NoneArk
                ELSE
                LET bq == SplitBlade(From(rest, Len(shoulder)))
                IN  [some           |-> TRUE,
                     original       |-> original_form,
                     naan           |-> naan,
                     shoulder       |-> shoulder,
                     blade          |-> bq.blade,
                     qualifier      |-> bq.qualifier,
                     normalized_ark |-> normalize_ark_string(ark)]

\* impl PartialEq for Ark, lifted to Option<Ark>
ArkEq(a, b) ==
    IF a.some /\ b.some THEN a.normalized_ark = b.normalized_ark
    ELSE a.some = b.some

(***************************************************************************)
(* config.rs and check_character.rs                                        *)
(*                                                                         *)
(* calculate_check_character walks the bytes of the UTF-8 encoding, and    *)
(* str::len and split_at count bytes.  A byte below 0x80 is written as its *)
(* ASCII character, any other byte as a token "0x..".                      *)
(***************************************************************************)
\* the UTF-8 encoding of one character
Utf8(c) ==
    CASE c = "U+00E9" -> <<"0xC3", "0xA9">>
      [] c \in Hyphens \ {"-"} -> <<"0xE2", "0x80", "0x90+">>
      [] OTHER -> <<c>>

\* str::bytes
RECURSIVE Bytes(_)
Bytes(s) == IF Len(s) = 0 THEN <<>> ELSE Utf8(Head(s)) \o Bytes(Tail(s))

\* str::len
ByteLen(s) == Len(Bytes(s))

\* config.rs: BETANUMERIC
BETANUMERIC ==
    <<"0", "1", "2", "3", "4", "5", "6", "7", "8", "9",
      "b", "c", "d", "f", "g", "h", "j", "k", "m", "n",
      "p", "q", "r", "s", "t", "v", "w", "x", "z">>

\* BETANUMERIC.len(), the radix of the checksum
Radix == 29

BetanumericSet == {BETANUMERIC[i] : i \in 1..Radix}

\* mutant: the table maps lower-case letters only
BETANUMERIC_LOOKUP_LowerOnly(b) ==
    IF b \in BetanumericSet
    THEN (CHOOSE i \in 1..Radix : BETANUMERIC[i] = b) - 1
    ELSE 0

\* BETANUMERIC_LOOKUP[b]: the table entry of byte b.  The table starts all
\* zero; entry ch and, for a lower-case letter, entry to_ascii_uppercase(ch)
\* are set to the ordinal of ch.
BETANUMERIC_LOOKUP(b) ==
    IF b \in BetanumericSet
    THEN (CHOOSE i \in 1..Radix : BETANUMERIC[i] = b) - 1
    ELSE IF \E i \in 1..Radix :
               BETANUMERIC[i] \in LowerLetters /\ ToAsciiUppercase(BETANUMERIC[i]) = b
         THEN (CHOOSE i \in 1..Radix :
                   BETANUMERIC[i] \in LowerLetters
                   /\ ToAsciiUppercase(BETANUMERIC[i]) = b) - 1
         ELSE 0

RECURSIVE WeightlessSum(_)
WeightlessSum(bytes) ==
    IF Len(bytes) = 0 THEN 0
    ELSE BETANUMERIC_LOOKUP(Head(bytes)) + WeightlessSum(Tail(bytes))

\* mutant: the position weight is dropped
CheckTotal_Unweighted(bytes, position, total) ==
    IF Len(bytes) = 0 THEN total
    ELSE total + WeightlessSum(bytes)

\* the loop of calculate_check_character: total after the bytes from
\* `position` on have been added
RECURSIVE CheckTotal(_, _, _)
CheckTotal(bytes, position, total) ==
    IF position >= Len(bytes) THEN total
    ELSE CheckTotal(bytes, position + 1,
                    total + (position + 1) * BETANUMERIC_LOOKUP(bytes[position + 1]))

calculate_check_character(id) ==
    BETANUMERIC[(CheckTotal(Bytes(id), 0, 0) % Radix) + 1]

\* str::eq_ignore_ascii_case on one-character strings
EqIgnoreAsciiCase(a, b) == ToAsciiLowercase(a) = ToAsciiLowercase(b)

\* mutant: the checksum is taken over the whole input, check character included
validate_check_character_WholeInput(id) ==
    IF ByteLen(id) < 2 THEN "false"
    ELSE IF Len(Utf8(id[Len(id)])) > 1 THEN "panic"
    ELSE IF EqIgnoreAsciiCase(id[Len(id)], calculate_check_character(id))
         THEN "true" ELSE "false"

\* validate_check_character: "true", "false", or "panic" when split_at is
\* handed a byte index inside the last character
validate_check_character(id) ==
    IF ByteLen(id) < 2 THEN "false"
    ELSE IF Len(Utf8(id[Len(id)])) > 1 THEN "panic"
    ELSE LET base           == SubSeq(id, 1, Len(id) - 1)
             provided_check == id[Len(id)]
             expected_check == calculate_check_character(base)
         IN  IF EqIgnoreAsciiCase(provided_check, expected_check)
             THEN "true" ELSE "false"

\* str::to_ascii_uppercase / to_ascii_lowercase
Upper(s) == [i \in 1..Len(s) |-> ToAsciiUppercase(s[i])]

Lower(s) == [i \in 1..Len(s) |-> ToAsciiLowercase(s[i])]

NoChecks == [set |-> FALSE]

\* no check-character call is in progress
CheckIdle ==
    /\ identifier = <<>>
    /\ checks = NoChecks
    /\ candidate = <<>>
    /\ kind = "none"
    /\ valid = "unset"

\* no parse_ark call is in progress
ParseIdle ==
    /\ input = <<>>
    /\ parsed = NoneArk
    /\ input2 = <<>>
    /\ parsed2 = NoneArk

NoLoad == [set |-> FALSE]

\* no shoulder is configured
ResolveIdle ==
    /\ route_pattern = <<>>
    /\ load = NoLoad
    /\ location = <<>>
    /\ target = <<>>

NoState == [set |-> FALSE]

NoRequest == [set |-> FALSE]

NoResponse == [set |-> FALSE]

\* no mint request is in progress
MintIdle ==
    /\ state = NoState
    /\ request = NoRequest
    /\ response = NoResponse

\* Option::None and Option::Some
None == [some |-> FALSE]

Some(v) == [some |-> TRUE, value |-> v]

NoValidation == [set |-> FALSE]

\* no validate request is in progress and the server holds no request
ApiIdle ==
    /\ hint = None
    /\ validation = NoValidation
    /\ requests = <<>>

(***************************************************************************)
(* The check character under study.  identifier is a run of PadChar        *)
(* followed by a short free tail; its check character is calculated and    *)
(* appended, the result may suffer one error, and is validated.  A string  *)
(* may also be validated as received.                                      *)
(***************************************************************************)
PadChar == "b"

\* characters of the alphabet that tails and errors are drawn from
BetaChars == {"0", "1", "z"}

\* other characters: an upper-case alphabet letter, an ASCII character and a
\* non-ASCII character outside the alphabet
OtherChars == {"Z", "/", "U+00E9"}

Pad(n) == [i \in 1..n |-> PadChar]

Tails(T) == UNION {[1..k -> T] : k \in 0..MaxTail}

CheckInputs ==
    {Pad(n) \o t : n \in 0..MaxPad, t \in Tails(BetaChars)}
        \cup Tails(BetaChars \cup OtherChars)

IsBetanumeric(s) == \A i \in 1..Len(s) : s[i] \in BetanumericSet

InitCheck ==
    /\ pc = "start"
    /\ identifier \in CheckInputs
    /\ checks = NoChecks
    /\ candidate = <<>>
    /\ kind = "none"
    /\ valid = "unset"
    /\ ParseIdle
    /\ ResolveIdle
    /\ MintIdle
    /\ ApiIdle

\* calculate_check_character on the identifier and on its two case variants
Calculate ==
    /\ pc = "start"
    /\ checks' = [set   |-> TRUE,
                  given |-> calculate_check_character(identifier),
                  upper |-> calculate_check_character(Upper(identifier)),
                  lower |-> calculate_check_character(Lower(identifier))]
    /\ pc' = "calculated"
    /\ UNCHANGED <<identifier, candidate, kind, valid>>
    /\ UNCHANGED parseVars
    /\ UNCHANGED resolveVars
    /\ UNCHANGED mintVars
    /\ UNCHANGED apiVars

\* s ++ checksum(s)
AppendCheck ==
    /\ pc = "calculated"
    /\ candidate' = Append(identifier, checks.given)
    /\ kind' = "appended"
    /\ pc' = "ready"
    /\ UNCHANGED <<identifier, checks, valid>>
    /\ UNCHANGED parseVars
    /\ UNCHANGED resolveVars
    /\ UNCHANGED mintVars
    /\ UNCHANGED apiVars

\* one character of a checked identifier is replaced by another of the alphabet
SingleError ==
    /\ pc = "ready"
    /\ kind = "appended"
    /\ IsBetanumeric(candidate)
    /\ \E i \in 1..Len(candidate), c \in BetaChars \cup {PadChar} :
          /\ c # candidate[i]
          /\ candidate' = [candidate EXCEPT ![i] = c]
    /\ kind' = "single"
    /\ UNCHANGED <<pc, identifier, checks, valid>>
    /\ UNCHANGED parseVars
    /\ UNCHANGED resolveVars
    /\ UNCHANGED mintVars
    /\ UNCHANGED apiVars

\* two adjacent unequal characters of a checked identifier are swapped
Transpose ==
    /\ pc = "ready"
    /\ kind = "appended"
    /\ IsBetanumeric(candidate)
    /\ \E i \in 1..(Len(candidate) - 1) :
          /\ candidate[i] # candidate[i + 1]
          /\ candidate' = [candidate EXCEPT ![i] = candidate[i + 1],
                                            ![i + 1] = candidate[i]]
    /\ kind' = "transposed"
    /\ UNCHANGED <<pc, identifier, checks, valid>>
    /\ UNCHANGED parseVars
    /\ UNCHANGED resolveVars
    /\ UNCHANGED mintVars
    /\ UNCHANGED apiVars

\* a string is validated as received
Submit ==
    /\ pc = "start"
    /\ candidate' = identifier
    /\ kind' = "raw"
    /\ pc' = "ready"
    /\ UNCHANGED <<identifier, checks, valid>>
    /\ UNCHANGED parseVars
    /\ UNCHANGED resolveVars
    /\ UNCHANGED mintVars
    /\ UNCHANGED apiVars

Validate ==
    /\ pc = "ready"
    /\ valid' = validate_check_character(candidate)
    /\ pc' = "done"
    /\ UNCHANGED <<identifier, checks, candidate, kind>>
    /\ UNCHANGED parseVars
    /\ UNCHANGED resolveVars
    /\ UNCHANGED mintVars
    /\ UNCHANGED apiVars

NextCheck ==
    \/ Calculate
    \/ AppendCheck
    \/ SingleError
    \/ Transpose
    \/ Submit
    \/ Validate

SpecCheck == InitCheck /\ [][NextCheck]_vars

(***************************************************************************)
(* url::Url::parse and Url::as_str, as shoulder.rs calls them: the URL     *)
(* parser for a string without a base URL.  The model is exact for strings *)
(* over ASCII letters, the digits 1-9 and the characters                   *)
(*     : / ? # @ $ { } = & - + tab, newline, space                         *)
(* with dot-free hosts, which is what the patterns and identifiers of the  *)
(* model are made of.                                                      *)
(***************************************************************************)
\* the characters Url::parse trims from both ends, and those it skips
C0ControlOrSpace == {" ", "\t", "\n", "\r"}

AsciiTabOrNewline == {"\t", "\n", "\r"}

RECURSIVE TrimStartMatches(_, _)
TrimStartMatches(s, cs) ==
    IF Len(s) > 0 /\ Head(s) \in cs THEN TrimStartMatches(Tail(s), cs) ELSE s

\* position of the last occurrence of c, -1 for None
FindLast(s, c) ==
    IF \E i \in 1..Len(s) : s[i] = c
    THEN (CHOOSE i \in 1..Len(s) :
            s[i] = c /\ \A j \in (i + 1)..Len(s) : s[j] # c) - 1
    ELSE -1

\* position of the first character of s that lies in cs, -1 for None
FindAny(s, cs) ==
    IF \E i \in 1..Len(s) : s[i] \in cs
    THEN (CHOOSE i \in 1..Len(s) :
            s[i] \in cs /\ \A j \in 1..(i - 1) : s[j] \notin cs) - 1
    ELSE -1

\* position of the first character of s that lies outside cs, -1 for None
FindNotIn(s, cs) ==
    IF \E i \in 1..Len(s) : s[i] \notin cs
    THEN (CHOOSE i \in 1..Len(s) :
            s[i] \notin cs /\ \A j \in 1..(i - 1) : s[j] \in cs) - 1
    ELSE -1

DigitSeq == <<"0", "1", "2", "3", "4", "5", "6", "7", "8", "9">>

\* char::to_digit(10)
ToDigit(c) == (CHOOSE i \in 1..10 : DigitSeq[i] = c) - 1

\* u32 / u16 to_string
RECURSIVE Dec(_)
Dec(n) == IF n < 10 THEN <<DigitSeq[n + 1]>> ELSE Dec(n \div 10) \o <<DigitSeq[(n % 10) + 1]>>

\* the percent-encoding of one character
PercentOf(c) ==
    CASE c = " " -> <<"%", "2", "0">>
      [] c = "#" -> <<"%", "2", "3">>
      [] c = "/" -> <<"%", "2", "F">>
      [] c = ":" -> <<"%", "3", "A">>
      [] c = "=" -> <<"%", "3", "D">>
      [] c = "?" -> <<"%", "3", "F">>
      [] c = "@" -> <<"%", "4", "0">>
      [] c = "{" -> <<"%", "7", "B">>
      [] c = "}" -> <<"%", "7", "D">>
      [] c = "$" -> <<"%", "2", "4">>
      [] c = "&" -> <<"%", "2", "6">>
      [] c = "+" -> <<"%", "2", "B">>
      [] c = "(" -> <<"%", "2", "8">>
      [] c = ")" -> <<"%", "2", "9">>
      [] c = "U+00E9" -> <<"%", "C", "3", "%", "A", "9">>
      [] c = "U+2013" -> <<"%", "E", "2", "%", "8", "0", "%", "9", "3">>
      [] OTHER -> <<"%", "?", "?">>

\* utf8_percent_encode(s, set)
RECURSIVE PercentEncode(_, _)
PercentEncode(s, set) ==
    IF Len(s) = 0 THEN <<>>
    ELSE IF Len(s) = 1
    THEN (IF s[1] \in set THEN PercentOf(s[1]) ELSE s)
    ELSE PercentEncode(SubSeq(s, 1, Len(s) \div 2), set)
            \o PercentEncode(SubSeq(s, (Len(s) \div 2) + 1, Len(s)), set)

NonAscii == {"U+00E9"} \cup (Hyphens \ {"-"})

\* the encode sets of the url crate, over the characters of the model
FRAGMENT_SET == {" "} \cup NonAscii

PATH_SET == FRAGMENT_SET \cup {"#", "?", "{", "}"}

USERINFO_SET == PATH_SET \cup {"/", ":", "=", "@"}

SPECIAL_QUERY_SET == {" ", "#"} \cup NonAscii

\* the set of urlencoding::encode: everything but ALPHA, DIGIT, - _ . ~
UrlencodingKeeps == LowerLetters \cup UpperLetters \cup AsciiDigits \cup {"-", "_", ".", "~"}

urlencoding_encode(s) ==
    PercentEncode(s, {s[i] : i \in 1..Len(s)} \ UrlencodingKeeps)

HTTP ==
    <<"h", "t", "t", "p">>

HTTPS ==
    <<"h", "t", "t", "p", "s">>

WS ==
    <<"w", "s">>

WSS ==
    <<"w", "s", "s">>

FTP ==
    <<"f", "t", "p">>

\* SchemeType::SpecialNotFile
SpecialNotFile == {HTTP, HTTPS, WS, WSS, FTP}

\* default_port(scheme), -1 for None
default_port(scheme) ==
    CASE scheme \in {HTTP, WS} -> 80
      [] scheme \in {HTTPS, WSS} -> 443
      [] scheme = FTP -> 21
      [] OTHER -> -1

\* ParseError::fmt
ERR_RELATIVE ==
    <<"r", "e", "l", "a", "t", "i", "v", "e", " ", "U", "R", "L", " ", "w",
    "i", "t", "h", "o", "u", "t", " ", "a", " ", "b", "a", "s", "e">>

ERR_EMPTY_HOST ==
    <<"e", "m", "p", "t", "y", " ", "h", "o", "s", "t">>

ERR_INVALID_PORT ==
    <<"i", "n", "v", "a", "l", "i", "d", " ", "p", "o", "r", "t", " ", "n",
    "u", "m", "b", "e", "r">>

ERR_INVALID_DOMAIN_CHARACTER ==
    <<"i", "n", "v", "a", "l", "i", "d", " ", "d", "o", "m", "a", "i", "n",
    " ", "c", "h", "a", "r", "a", "c", "t", "e", "r">>

ERR_INVALID_IPV4 ==
    <<"i", "n", "v", "a", "l", "i", "d", " ", "I", "P", "v", "4", " ", "a",
    "d", "d", "r", "e", "s", "s">>

UrlErr(e) == [ok |-> FALSE, err |-> e]

SchemeChars == LowerLetters \cup UpperLetters \cup AsciiDigits \cup {"+", "-", "."}

\* Parser::parse_scheme: the length of the scheme, -1 when the input has none
SchemeEnd(t) ==
    IF Len(t) = 0 \/ t[1] \notin (LowerLetters \cup UpperLetters) THEN -1
    ELSE LET p == FindNotIn(t, SchemeChars)
         IN  IF p # -1 /\ t[p + 1] = ":" THEN p ELSE -1

\* Parser::parse_port: the port, -1 for none given, -2 for InvalidPort
RECURSIVE PortLoop(_, _)
PortLoop(s, port) ==
    IF Len(s) = 0 THEN port
    ELSE IF Head(s) \notin AsciiDigits THEN -2
    ELSE IF port * 10 + ToDigit(Head(s)) > 65535 THEN -2
    ELSE PortLoop(Tail(s), port * 10 + ToDigit(Head(s)))

parse_port(s) == IF Len(s) = 0 THEN -1 ELSE PortLoop(s, 0)

\* the forbidden host code points that strings of the model can hold
ForbiddenHostChars == {" ", "U+00E9"} \cup (Hyphens \ {"-"})

RECURSIVE DecValue(_, _)
DecValue(s, acc) ==
    IF Len(s) = 0 THEN acc ELSE DecValue(Tail(s), acc * 10 + ToDigit(Head(s)))

\* Ipv4Addr::fmt of the address with number n
Ipv4Text(n) ==
    Dec(n \div 16777216) \o <<".">> \o Dec((n \div 65536) % 256) \o <<".">>
        \o Dec((n \div 256) % 256) \o <<".">> \o Dec(n % 256)

\* Host::parse of a non-empty host: a domain is lower-cased, and a host that
\* is a number is an IPv4 address
HostParse(h) ==
    IF \E i \in 1..Len(h) : h[i] \in ForbiddenHostChars
    THEN UrlErr(ERR_INVALID_DOMAIN_CHARACTER)
    ELSE IF \A i \in 1..Len(h) : h[i] \in AsciiDigits
    THEN IF Len(h) > 9 THEN UrlErr(ERR_INVALID_IPV4)
         ELSE [ok |-> TRUE, host |-> Ipv4Text(DecValue(h, 0))]
    ELSE [ok |-> TRUE, host |-> ToLowercase(h)]

\* the userinfo as parse_userinfo serialises it
UserinfoText(userinfo) ==
    LET colon    == Find(userinfo, ":")
        username == BeforeFirst(userinfo, ":")
        password == IF colon = -1 THEN <<>> ELSE From(userinfo, colon + 1)
    IN  PercentEncode(username, USERINFO_SET)
            \o (IF Len(password) > 0
                THEN <<":">> \o PercentEncode(password, USERINFO_SET) ELSE <<>>)
            \o (IF Len(username) > 0 \/ Len(password) > 0 THEN <<"@">> ELSE <<>>)

\* path, query and fragment as the parser serialises them
TailText(remaining) ==
    LET pathEnd == FindAny(remaining, {"?", "#"})
        pathRaw == IF pathEnd = -1 THEN remaining ELSE Slice(remaining, 0, pathEnd)
        rest    == From(remaining, Len(pathRaw))
        hash    == Find(rest, "#")
        beforeH == IF hash = -1 THEN rest ELSE Slice(rest, 0, hash)
        frag    == IF hash = -1 THEN <<>> ELSE From(rest, hash + 1)
    IN  (IF Len(pathRaw) = 0 THEN <<"/">> ELSE PercentEncode(pathRaw, PATH_SET))
            \o (IF Len(beforeH) > 0
                THEN <<"?">> \o PercentEncode(Tail(beforeH), SPECIAL_QUERY_SET)
                ELSE <<>>)
            \o (IF hash # -1 THEN <<"#">> \o PercentEncode(frag, FRAGMENT_SET) ELSE <<>>)

\* Parser::after_double_slash for a special scheme: authority, then the rest
ParseSpecial(scheme, after) ==
    LET a         == TrimStartMatches(after, {"/", "\\"})
        authEnd   == FindAny(a, {"/", "?", "#", "\\"})
        auth      == IF authEnd = -1 THEN a ELSE Slice(a, 0, authEnd)
        remaining == From(a, Len(auth))
        lastAt    == FindLast(auth, "@")
        userinfo  == IF lastAt = -1 THEN <<>> ELSE Slice(auth, 0, lastAt)
        hostport  == IF lastAt = -1 THEN auth ELSE From(auth, lastAt + 1)
        colon     == Find(hostport, ":")
        hostRaw   == BeforeFirst(hostport, ":")
        portRaw   == IF colon = -1 THEN <<>> ELSE From(hostport, colon + 1)
    IN  IF Len(hostRaw) = 0 THEN UrlErr(ERR_EMPTY_HOST)
        ELSE IF ~HostParse(hostRaw).ok THEN HostParse(hostRaw)
        ELSE IF parse_port(portRaw) = -2 THEN UrlErr(ERR_INVALID_PORT)
        ELSE LET host == HostParse(hostRaw).host
                 port == IF parse_port(portRaw) = default_port(scheme)
                         THEN -1 ELSE parse_port(portRaw)
             IN  [ok     |-> TRUE,
                  scheme |-> scheme,
                  host   |-> host,
                  port   |-> port,
                  serialization |->
                      scheme \o <<":", "/", "/">> \o UserinfoText(userinfo) \o host
                          \o (IF port = -1 THEN <<>> ELSE <<":">> \o Dec(port))
                          \o TailText(remaining)]

\* Url::parse.  A URL whose scheme is not special keeps the text after the
\* scheme as it is; its callers here only read its scheme.
Url_parse(url_str) ==
    LET t  == RemoveChars(
                  TrimEndMatches(TrimStartMatches(url_str, C0ControlOrSpace),
                                 C0ControlOrSpace),
                  AsciiTabOrNewline)
        se == SchemeEnd(t)
    IN  IF se = -1 THEN UrlErr(ERR_RELATIVE)
        ELSE LET scheme == ToLowercase(Slice(t, 0, se))
             IN  IF scheme \in SpecialNotFile
                 THEN ParseSpecial(scheme, From(t, se + 1))
                 ELSE [ok     |-> TRUE,
                       scheme |-> scheme,
                       host   |-> <<>>,
                       port   |-> -1,
                       serialization |-> scheme \o <<":">> \o From(t, se + 1)]

(***************************************************************************)
(* shoulder.rs                                                             *)
(***************************************************************************)
\* the string literals of shoulder.rs
DOLLAR_BRACE ==
    <<"$", "{">>

V_PID ==
    <<"{", "p", "i", "d", "}">>

V_SCHEME ==
    <<"{", "s", "c", "h", "e", "m", "e", "}">>

V_CONTENT ==
    <<"{", "c", "o", "n", "t", "e", "n", "t", "}">>

V_PREFIX ==
    <<"{", "p", "r", "e", "f", "i", "x", "}">>

V_VALUE ==
    <<"{", "v", "a", "l", "u", "e", "}">>

V_NAAN ==
    <<"{", "n", "a", "a", "n", "}">>

D_PID ==
    <<"$", "{", "p", "i", "d", "}">>

D_SCHEME ==
    <<"$", "{", "s", "c", "h", "e", "m", "e", "}">>

D_CONTENT ==
    <<"$", "{", "c", "o", "n", "t", "e", "n", "t", "}">>

D_PREFIX ==
    <<"$", "{", "p", "r", "e", "f", "i", "x", "}">>

D_VALUE ==
    <<"$", "{", "v", "a", "l", "u", "e", "}">>

PLACEHOLDER ==
    <<"p", "l", "a", "c", "e", "h", "o", "l", "d", "e", "r">>

SCHEME_SEP ==
    <<":", "/", "/">>

ARK_SCHEME ==
    <<"a", "r", "k">>

ABOUT_BLANK_ERROR ==
    <<"a", "b", "o", "u", "t", ":", "b", "l", "a", "n", "k", "#", "e", "r",
    "r", "o", "r", "=">>

MSG_CONTROL ==
    <<"r", "o", "u", "t", "e", "_", "p", "a", "t", "t", "e", "r", "n", " ",
    "c", "o", "n", "t", "a", "i", "n", "s", " ", "c", "o", "n", "t", "r",
    "o", "l", " ", "c", "h", "a", "r", "a", "c", "t", "e", "r", "s">>

MSG_INVALID_URL ==
    <<"I", "n", "v", "a", "l", "i", "d", " ", "U", "R", "L", " ", "i", "n",
    " ", "r", "o", "u", "t", "e", "_", "p", "a", "t", "t", "e", "r", "n",
    ":", " ">>

MSG_ONLY_HTTP ==
    <<"O", "n", "l", "y", " ", "h", "t", "t", "p", " ", "a", "n", "d", " ",
    "h", "t", "t", "p", "s", " ", "s", "c", "h", "e", "m", "e", "s", " ",
    "a", "l", "l", "o", "w", "e", "d", ",", " ", "f", "o", "u", "n", "d",
    ":", " ">>

MSG_IN_SCHEME ==
    <<"T", "e", "m", "p", "l", "a", "t", "e", " ", "v", "a", "r", "i", "a",
    "b", "l", "e", "s", " ", "n", "o", "t", " ", "a", "l", "l", "o", "w",
    "e", "d", " ", "i", "n", " ", "U", "R", "L", " ", "s", "c", "h", "e",
    "m", "e", " ", "p", "o", "s", "i", "t", "i", "o", "n">>

MSG_IN_HOST ==
    <<"T", "e", "m", "p", "l", "a", "t", "e", " ", "v", "a", "r", "i", "a",
    "b", "l", "e", "s", " ", "n", "o", "t", " ", "a", "l", "l", "o", "w",
    "e", "d", " ", "i", "n", " ", "U", "R", "L", " ", "h", "o", "s", "t",
    " ", "p", "o", "s", "i", "t", "i", "o", "n">>

MSG_INVALID_REDIRECT ==
    <<"I", "n", "v", "a", "l", "i", "d", " ", "r", "e", "d", "i", "r", "e",
    "c", "t", " ", "U", "R", "L", " ", "c", "o", "n", "s", "t", "r", "u",
    "c", "t", "e", "d", ":", " ">>

MSG_REDIRECT_SCHEME ==
    <<"R", "e", "d", "i", "r", "e", "c", "t", " ", "U", "R", "L", " ", "h",
    "a", "s", " ", "i", "n", "v", "a", "l", "i", "d", " ", "s", "c", "h",
    "e", "m", "e", " ", "(", "e", "x", "p", "e", "c", "t", "e", "d", " ",
    "h", "t", "t", "p", "/", "h", "t", "t", "p", "s", ")", ":", " ">>

\* char::is_control, over the characters of the model
ControlChars == {"\t", "\n", "\r"}

Ok == [ok |-> TRUE]

Err(msg) == [ok |-> FALSE, err |-> msg]

\* the test both validate_route_pattern and apply_template make
has_template_vars(pattern) ==
    \/ ContainsStr(pattern, DOLLAR_BRACE)
    \/ ContainsStr(pattern, V_PID)
    \/ ContainsStr(pattern, V_SCHEME)
    \/ ContainsStr(pattern, V_CONTENT)
    \/ ContainsStr(pattern, V_PREFIX)
    \/ ContainsStr(pattern, V_VALUE)
    \/ ContainsStr(pattern, V_NAAN)

\* Shoulder::validate_base_url
validate_base_url(url_str) ==
    LET url == Url_parse(url_str)
    IN  IF ~url.ok THEN Err(MSG_INVALID_URL \o url.err)
        ELSE IF url.scheme \in {HTTP, HTTPS} THEN Ok
        ELSE Err(MSG_ONLY_HTTP \o url.scheme)

\* the pattern with every variable replaced by "placeholder"
TestUrl(pattern) ==
    LET r1  == Replace(pattern, D_PID, PLACEHOLDER)
        r2  == Replace(r1, D_SCHEME, PLACEHOLDER)
        r3  == Replace(r2, D_CONTENT, PLACEHOLDER)
        r4  == Replace(r3, D_PREFIX, PLACEHOLDER)
        r5  == Replace(r4, D_VALUE, PLACEHOLDER)
        r6  == Replace(r5, V_PID, PLACEHOLDER)
        r7  == Replace(r6, V_SCHEME, PLACEHOLDER)
        r8  == Replace(r7, V_CONTENT, PLACEHOLDER)
        r9  == Replace(r8, V_PREFIX, PLACEHOLDER)
        r10 == Replace(r9, V_VALUE, PLACEHOLDER)
    IN  Replace(r10, V_NAAN, PLACEHOLDER)

\* route_pattern.split("://").nth(1): the text between the first and the
\* second "://"; the flag tells whether there is one
AfterScheme(pattern) ==
    LET first == FindStr(pattern, SCHEME_SEP)
        rest  == From(pattern, first + Len(SCHEME_SEP))
        next  == FindStr(rest, SCHEME_SEP)
    IN  IF first = -1 THEN [some |-> FALSE]
        ELSE [some |-> TRUE,
              text |-> IF next = -1 THEN rest ELSE Slice(rest, 0, next)]

\* the scheme check of validate_route_pattern
SchemeHasMarker(pattern) ==
    LET found      == FindStr(pattern, SCHEME_SEP)
        scheme_end == IF found = -1 THEN 0 ELSE found
    IN  /\ scheme_end > 0
        /\ LET scheme_part == Slice(pattern, 0, scheme_end)
           IN  Contains(scheme_part, "$") \/ Contains(scheme_part, "{")

\* the host check of validate_route_pattern
HostHasMarker(pattern) ==
    LET after_scheme == AfterScheme(pattern)
    IN  /\ after_scheme.some
        /\ LET slash     == Find(after_scheme.text, "/")
               host_end  == IF slash # -1 THEN slash
                            ELSE IF Find(after_scheme.text, "?") # -1
                            THEN Find(after_scheme.text, "?")
                            ELSE Len(after_scheme.text)
               host_part == Slice(after_scheme.text, 0, host_end)
           IN  Contains(host_part, "$") \/ Contains(host_part, "{")

\* Shoulder::validate_route_pattern
validate_route_pattern(pattern) ==
    IF \E i \in 1..Len(pattern) : pattern[i] \in ControlChars
    THEN Err(MSG_CONTROL)
    ELSE IF ~has_template_vars(pattern)
    THEN validate_base_url(pattern)
    ELSE LET test_url == TestUrl(pattern)
         IN  IF ~validate_base_url(test_url).ok THEN validate_base_url(test_url)
             ELSE IF Url_parse(test_url).ok /\ SchemeHasMarker(pattern)
             THEN Err(MSG_IN_SCHEME)
             ELSE IF Url_parse(test_url).ok /\ HostHasMarker(pattern)
             THEN Err(MSG_IN_HOST)
             ELSE Ok

\* Shoulder::validate_redirect_url
validate_redirect_url(url_str) ==
    LET url == Url_parse(url_str)
    IN  IF ~url.ok THEN Err(MSG_INVALID_REDIRECT \o url.err)
        ELSE IF url.scheme \in {HTTP, HTTPS} THEN [ok |-> TRUE, url |-> url]
        ELSE Err(MSG_REDIRECT_SCHEME \o url.scheme)

\* the template variable `content`
ContentOf(a) ==
    IF Len(a.qualifier) = 0
    THEN a.naan \o <<"/">> \o a.shoulder \o a.blade
    ELSE a.naan \o <<"/">> \o a.shoulder \o a.blade \o <<"/">> \o a.qualifier

\* value with the separator before every qualifier
ValueOf_AlwaysSlash(a) ==
    IF Len(a.qualifier) = 0 THEN a.shoulder \o a.blade
    ELSE a.shoulder \o a.blade \o <<"/">> \o a.qualifier

\* the template variable `value`
ValueOf(a) ==
    IF Len(a.qualifier) = 0 THEN a.shoulder \o a.blade
    ELSE IF a.qualifier[1] = "?" THEN a.shoulder \o a.blade \o a.qualifier
    ELSE a.shoulder \o a.blade \o <<"/">> \o a.qualifier

\* the pattern with ${var} rewritten to {var} and {naan} to {prefix}
NormalizeTemplate(pattern) ==
    LET r1 == Replace(pattern, D_PID, V_PID)
        r2 == Replace(r1, D_SCHEME, V_SCHEME)
        r3 == Replace(r2, D_CONTENT, V_CONTENT)
        r4 == Replace(r3, D_PREFIX, V_PREFIX)
        r5 == Replace(r4, D_VALUE, V_VALUE)
    IN  Replace(r5, V_NAAN, V_PREFIX)

\* Shoulder::apply_template
apply_template(pattern, parsed_ark) ==
    IF ~has_template_vars(pattern)
    THEN pattern \o parsed_ark.original
    ELSE LET s1 == Replace(NormalizeTemplate(pattern), V_PID, parsed_ark.original)
             s2 == Replace(s1, V_SCHEME, ARK_SCHEME)
             s3 == Replace(s2, V_CONTENT, ContentOf(parsed_ark))
             s4 == Replace(s3, V_PREFIX, parsed_ark.naan)
         IN  Replace(s4, V_VALUE, ValueOf(parsed_ark))

\* the error message itself as the redirect target
ErrorUrl_BareMessage(e) == e

\* what resolve returns when the target is refused
ErrorUrl(e) == ABOUT_BLANK_ERROR \o urlencoding_encode(e)

\* the refused target handed back as it is
resolve_ReturnsTarget(pattern, parsed_ark) == apply_template(pattern, parsed_ark)

\* Shoulder::resolve
resolve(pattern, parsed_ark) ==
    LET built    == apply_template(pattern, parsed_ark)
        validated == validate_redirect_url(built)
    IN  IF validated.ok THEN validated.url.serialization
        ELSE ErrorUrl(validated.err)

(***************************************************************************)
(* Inputs: strings built from at most MaxTokens tokens.                    *)
(***************************************************************************)
ParseTokens == {ARK_PREFIX, <<"/">>, <<"?">>, <<"1">>, <<"x">>, <<"-">>}

RECURSIVE Flatten(_)
Flatten(ts) == IF Len(ts) = 0 THEN <<>> ELSE Head(ts) \o Flatten(Tail(ts))

TokenSeqs(T, n) == UNION {[1..k -> T] : k \in 0..n}

\* the strings of at most n tokens
ParseInputs(n) == {Flatten(ts) : ts \in TokenSeqs(ParseTokens, n)}

(***************************************************************************)
(* The parser under study: one call of parse_ark.                          *)
(***************************************************************************)
InitParse ==
    /\ pc = "start"
    /\ input \in ParseInputs(MaxTokens)
    /\ parsed = NoneArk
    /\ input2 = <<>>
    /\ parsed2 = NoneArk
    /\ CheckIdle
    /\ ResolveIdle
    /\ MintIdle
    /\ ApiIdle

Parse ==
    /\ pc = "start"
    /\ parsed' = parse_ark(input)
    /\ pc' = "done"
    /\ UNCHANGED <<input, input2, parsed2>>
    /\ UNCHANGED checkVars
    /\ UNCHANGED resolveVars
    /\ UNCHANGED mintVars
    /\ UNCHANGED apiVars

NextParse == Parse

SpecParse == InitParse /\ [][NextParse]_vars

(***************************************************************************)
(* Properties of parse_ark                                                 *)
(***************************************************************************)
\* the post-NAAN text of a parsed identifier, read off its original field
RestOf(a) == From(a.original, Len(ARK_PREFIX) + Len(a.naan) + 1)

\* the text after the shoulder
AfterShoulderOf(a) == From(RestOf(a), Len(a.shoulder))

\* position of the first character of s that lies in cs, -1 if there is none
FirstOf(s, cs) ==
    IF \E i \in 1..Len(s) : s[i] \in cs
    THEN (CHOOSE i \in 1..Len(s) :
            s[i] \in cs /\ \A j \in 1..(i - 1) : s[j] \notin cs) - 1
    ELSE -1

\* C2: for every accepted string the blade is the text after the shoulder up
\* to the first '/' or '?', whichever comes first, so it holds neither; a '/'
\* separator is consumed and a '?' separator starts the qualifier.
C2_BladeEndsAtFirstSeparator ==
    (pc = "done" /\ parsed.some) =>
        LET after == AfterShoulderOf(parsed)
            sep   == FirstOf(after, {"/", "?"})
        IN  /\ ~Contains(parsed.blade, "/")
            /\ ~Contains(parsed.blade, "?")
            /\ parsed.blade = (IF sep = -1 THEN after ELSE Slice(after, 0, sep))
            /\ parsed.qualifier =
                  (IF sep = -1 THEN <<>>
                   ELSE IF after[sep + 1] = "/" THEN From(after, sep + 1)
                   ELSE From(after, sep))

\* the input with only a leading "ark:/" collapsed to "ark:"
CollapseLeading(s) ==
    IF StartsWith(s, ARK_SLASH) THEN ARK_PREFIX \o From(s, Len(ARK_SLASH)) ELSE s

\* C3: parse_ark changes nothing of the input except the leading "ark:/":
\* original is the input with that prefix collapsed, and naan, blade and
\* qualifier are substrings of the input as received.
C3_OnlyLeadingPrefixCollapsed ==
    (pc = "done" /\ parsed.some) =>
        /\ parsed.original = CollapseLeading(input)
        /\ ContainsStr(input, parsed.naan)
        /\ ContainsStr(input, parsed.blade)
        /\ ContainsStr(input, parsed.qualifier)

\* C4: the shoulder is the shortest prefix of the post-NAAN text that ends in
\* an ASCII digit (one digit, its last character), and it lies before the
\* first '?' of that text.
C4_ShoulderShortestDigitPrefix ==
    (pc = "done" /\ parsed.some) =>
        LET sh == parsed.shoulder
        IN  /\ Len(sh) >= 1
            /\ StartsWith(RestOf(parsed), sh)
            /\ sh[Len(sh)] \in AsciiDigits
            /\ \A i \in 1..(Len(sh) - 1) : sh[i] \notin AsciiDigits
            /\ ~Contains(sh, "?")

\* C4 witness: an accepted string with a digit inside its query string
C4_Witness ==
    /\ pc = "done"
    /\ parsed.some
    /\ LET q == Find(RestOf(parsed), "?")
       IN  /\ q # -1
           /\ \E i \in (q + 2)..Len(RestOf(parsed)) :
                  RestOf(parsed)[i] \in AsciiDigits

\* when parse_ark is said to fail
ParseFails(s) ==
    LET c == Replace(s, ARK_SLASH, ARK_PREFIX)
    IN  \/ ~StartsWith(c, ARK_PREFIX)
        \/ ~Contains(From(c, 4), "/")
        \/ LET r == From(From(c, 4), Find(From(c, 4), "/") + 1)
           IN  \A i \in 1..Len(r) :
                  r[i] \in AsciiDigits => \E j \in 1..(i - 1) : r[j] = "?"

\* C5: parse_ark fails exactly when the collapsed string lacks the "ark:"
\* prefix, or no '/' follows the NAAN, or no ASCII digit stands before the
\* first '?' of the post-NAAN text; an absent qualifier is the empty string.
C5_FailsExactlyWhen ==
    pc = "done" =>
        /\ parsed.some = ~ParseFails(input)
        /\ (parsed.some /\ FirstOf(AfterShoulderOf(parsed), {"/", "?"}) = -1)
              => parsed.qualifier = <<>>

\* C5 witness: a string with the prefix and the '/' whose only digits follow
\* the '?', so the third condition alone makes it fail
C5_Witness ==
    /\ pc = "done"
    /\ ~parsed.some
    /\ StartsWith(input, ARK_PREFIX)
    /\ Contains(From(Replace(input, ARK_SLASH, ARK_PREFIX), 4), "/")
    /\ \E i \in 1..Len(input) : input[i] \in AsciiDigits

(***************************************************************************)
(* Two spellings of one identifier: input2 is input after one edit that    *)
(* the ARK equivalence rules call inert, and both are parsed.              *)
(***************************************************************************)
EqTokens == {ARK_PREFIX, <<"/">>, <<"?">>, <<"1">>, <<"x">>, <<"N">>}

EqInputs(n) == {Flatten(ts) : ts \in TokenSeqs(EqTokens, n)}

\* the characters an inert insertion may add: hyphen, a dash, whitespace
InertChars == {"-", "U+2013", " "}

\* the query strings an edit may append
Queries == {<<"?">>, <<"?", "x">>, <<"?", "1", "/">>}

InsertAt(s, i, c) == SubSeq(s, 1, i) \o <<c>> \o SubSeq(s, i + 1, Len(s))

\* 1-based positions of the NAAN: between the scheme prefix and the next '/'
NaanPositions(s) ==
    LET start == IF StartsWith(s, ARK_SLASH) THEN 5
                 ELSE IF StartsWith(s, ARK_PREFIX) THEN 4 ELSE Len(s)
        slash == Find(From(s, start), "/")
        end   == IF slash = -1 THEN Len(s) ELSE start + slash
    IN  (start + 1)..end

SwapCase(c) == IF c \in UpperLetters THEN ToAsciiLowercase(c) ELSE ToAsciiUppercase(c)

InitEq ==
    /\ pc = "start"
    /\ input \in EqInputs(MaxEqTokens)
    /\ input2 = input
    /\ parsed = NoneArk
    /\ parsed2 = NoneArk
    /\ CheckIdle
    /\ ResolveIdle
    /\ MintIdle
    /\ ApiIdle

InsertInert ==
    /\ pc = "start"
    /\ \E i \in 0..Len(input2), c \in InertChars : input2' = InsertAt(input2, i, c)
    /\ pc' = "edited"
    /\ UNCHANGED <<input, parsed, parsed2>>
    /\ UNCHANGED checkVars
    /\ UNCHANGED resolveVars
    /\ UNCHANGED mintVars
    /\ UNCHANGED apiVars

ChangeNaanCase ==
    /\ pc = "start"
    /\ \E i \in NaanPositions(input2) :
          /\ input2[i] \in UpperLetters \cup LowerLetters
          /\ input2' = [input2 EXCEPT ![i] = SwapCase(input2[i])]
    /\ pc' = "edited"
    /\ UNCHANGED <<input, parsed, parsed2>>
    /\ UNCHANGED checkVars
    /\ UNCHANGED resolveVars
    /\ UNCHANGED mintVars
    /\ UNCHANGED apiVars

AppendTrailing ==
    /\ pc = "start"
    /\ \E c \in {"/", "."} : input2' = Append(input2, c)
    /\ pc' = "edited"
    /\ UNCHANGED <<input, parsed, parsed2>>
    /\ UNCHANGED checkVars
    /\ UNCHANGED resolveVars
    /\ UNCHANGED mintVars
    /\ UNCHANGED apiVars

AppendQuery ==
    /\ pc = "start"
    /\ \E q \in Queries : input2' = input2 \o q
    /\ pc' = "edited"
    /\ UNCHANGED <<input, parsed, parsed2>>
    /\ UNCHANGED checkVars
    /\ UNCHANGED resolveVars
    /\ UNCHANGED mintVars
    /\ UNCHANGED apiVars

ParseBoth ==
    /\ pc = "edited"
    /\ parsed' = parse_ark(input)
    /\ parsed2' = parse_ark(input2)
    /\ pc' = "done"
    /\ UNCHANGED <<input, input2>>
    /\ UNCHANGED checkVars
    /\ UNCHANGED resolveVars
    /\ UNCHANGED mintVars
    /\ UNCHANGED apiVars

NextEq ==
    \/ InsertInert
    \/ ChangeNaanCase
    \/ AppendTrailing
    \/ AppendQuery
    \/ ParseBoth

SpecEq == InitEq /\ [][NextEq]_vars

\* C1: two strings that differ only by a hyphen, a dash, whitespace, the
\* letter case of the NAAN, a trailing '/' or '.', or an appended query string
\* both parse and parse to equal Identifiers.
C1_InertEditsParseEqual ==
    (pc = "done" /\ (parsed.some \/ parsed2.some)) =>
        /\ parsed.some
        /\ parsed2.some
        /\ ArkEq(parsed, parsed2)

(***************************************************************************)
(* The resolver under study.  A shoulder is configured with a route        *)
(* pattern; load_shoulders_from_env validates the pattern and fails on an  *)
(* error; a loaded shoulder resolves parsed identifiers.                   *)
(***************************************************************************)
PatternTokens ==
    {HTTPS \o SCHEME_SEP \o <<"h">>, HTTPS \o <<":">>, FTP \o <<":">>,
     <<"/">>, V_VALUE, D_PID}

\* the route patterns of at most n tokens
Patterns(n) == {Flatten(ts) : ts \in TokenSeqs(PatternTokens, n)}

ArkTokens == {<<"1">>, <<"b">>, <<"/">>, <<"?">>, <<"@">>}

\* the strings a request may carry: "ark:" and at most n tokens
ResolveArks(n) == {ARK_PREFIX \o Flatten(ts) : ts \in TokenSeqs(ArkTokens, n)}

InitResolve ==
    /\ pc = "config"
    /\ route_pattern \in Patterns(MaxPatternTokens)
    /\ load = NoLoad
    /\ location = <<>>
    /\ target = <<>>
    /\ ParseIdle
    /\ CheckIdle
    /\ MintIdle
    /\ ApiIdle

\* load_shoulders_from_env: validate the pattern of the shoulder
Load ==
    /\ pc = "config"
    /\ load' = [set |-> TRUE, result |-> validate_route_pattern(route_pattern)]
    /\ pc' = IF validate_route_pattern(route_pattern).ok THEN "serving" ELSE "failed"
    /\ UNCHANGED <<route_pattern, location, target>>
    /\ UNCHANGED parseVars
    /\ UNCHANGED checkVars
    /\ UNCHANGED mintVars
    /\ UNCHANGED apiVars

\* parse_ark, then Shoulder::resolve on the parsed identifier
Resolve ==
    /\ pc = "serving"
    /\ \E a \in ResolveArks(MaxArkTokens) :
        LET parsed_ark == parse_ark(a)
        IN  /\ parsed_ark.some
            /\ input' = a
            /\ parsed' = parsed_ark
            /\ target' = apply_template(route_pattern, parsed_ark)
            /\ location' = resolve(route_pattern, parsed_ark)
    /\ pc' = "resolved"
    /\ UNCHANGED <<route_pattern, load, input2, parsed2>>
    /\ UNCHANGED checkVars
    /\ UNCHANGED mintVars
    /\ UNCHANGED apiVars

NextResolve == Load \/ Resolve

SpecResolve == InitResolve /\ [][NextResolve]_vars

(***************************************************************************)
(* Template expansion under study: Shoulder::resolve called on a Shoulder  *)
(* value as it stands, validated or not.  The pattern is a base followed   *)
(* by two slots separated by '/', each slot empty, a template variable in  *)
(* one of its syntaxes, or a "${...}" that names no variable.  The         *)
(* identifier is "ark:1/b1" followed by at most MaxSuffixTokens tokens.    *)
(***************************************************************************)
UNKNOWN_VAR ==
    <<"$", "{", "x", "}">>

TemplateBases ==
    {HTTPS \o SCHEME_SEP \o <<"h", "/">>,
     FTP \o SCHEME_SEP \o <<"h", "/">>,
     HTTPS \o SCHEME_SEP \o <<"h", ":">>}

TemplateVars ==
    {V_PID, V_SCHEME, V_CONTENT, V_PREFIX, V_VALUE, V_NAAN,
     D_PID, D_SCHEME, D_CONTENT, D_PREFIX, D_VALUE}

TemplateSlots == TemplateVars \cup {<<>>, UNKNOWN_VAR}

BuildPattern(base, slot1, slot2) == base \o slot1 \o <<"/">> \o slot2

TemplatePatterns ==
    {BuildPattern(b, s1, s2) : b \in TemplateBases, s1 \in TemplateSlots,
                               s2 \in TemplateSlots}

SuffixTokens == {<<"b">>, <<"/">>, <<"?">>, V_VALUE}

TemplateArks(n) ==
    {ARK_PREFIX \o <<"1", "/", "b", "1">> \o Flatten(ts) :
        ts \in TokenSeqs(SuffixTokens, n)}

InitTemplate ==
    /\ pc = "request"
    /\ route_pattern \in TemplatePatterns
    /\ input \in TemplateArks(MaxSuffixTokens)
    /\ parsed = NoneArk
    /\ input2 = <<>>
    /\ parsed2 = NoneArk
    /\ load = NoLoad
    /\ location = <<>>
    /\ target = <<>>
    /\ CheckIdle
    /\ MintIdle
    /\ ApiIdle

\* parse_ark on the identifier of the request
ParseRequest ==
    /\ pc = "request"
    /\ parsed' = parse_ark(input)
    /\ pc' = IF parse_ark(input).some THEN "parsed" ELSE "invalid"
    /\ UNCHANGED <<input, input2, parsed2>>
    /\ UNCHANGED resolveVars
    /\ UNCHANGED mintVars
    /\ UNCHANGED apiVars
    /\ UNCHANGED checkVars

\* Shoulder::resolve: apply_template, then validate_redirect_url
Expand ==
    /\ pc = "parsed"
    /\ target' = apply_template(route_pattern, parsed)
    /\ location' = resolve(route_pattern, parsed)
    /\ pc' = "expanded"
    /\ UNCHANGED <<route_pattern, load>>
    /\ UNCHANGED parseVars
    /\ UNCHANGED checkVars
    /\ UNCHANGED mintVars
    /\ UNCHANGED apiVars

NextTemplate == ParseRequest \/ Expand

SpecTemplate == InitTemplate /\ [][NextTemplate]_vars

(***************************************************************************)
(* minting.rs and mint_handler                                             *)
(***************************************************************************)
\* the symbols the random generator draws in the model: a digit and a letter
\* of BETANUMERIC
BladeChars == {BETANUMERIC[1], BETANUMERIC[11]}

\* generate_random_blade: every string the generator can return
generate_random_blade(blade_length) == [1..blade_length -> BladeChars]

\* mutant: the check character is computed over the blade alone
mint_ark_CheckOverBlade(naan, shoulder, blade_length, uses_check_character) ==
    {IF uses_check_character
     THEN ARK_PREFIX \o naan \o <<"/">> \o shoulder \o blade
              \o <<calculate_check_character(blade)>>
     ELSE ARK_PREFIX \o naan \o <<"/">> \o shoulder \o blade
        : blade \in generate_random_blade(blade_length)}

\* mint_ark: every string one call can return
mint_ark(naan, shoulder, blade_length, uses_check_character) ==
    {IF uses_check_character
     THEN LET identifier_for_check == shoulder \o blade
              check_character == calculate_check_character(identifier_for_check)
          IN  ARK_PREFIX \o naan \o <<"/">> \o shoulder \o blade \o <<check_character>>
     ELSE ARK_PREFIX \o naan \o <<"/">> \o shoulder \o blade
        : blade \in generate_random_blade(blade_length)}

\* usize::min
Min(a, b) == IF a <= b THEN a ELSE b

\* Option<usize>::None of Shoulder.blade_length
NoBladeLength == -1

ShoulderNotFound == "ShoulderNotFound"

\* mutant: the requested count is not capped
mint_arks_Uncapped(st, shoulder, count) ==
    IF shoulder \notin DOMAIN st.shoulders
    THEN {[ok |-> FALSE, err |-> ShoulderNotFound]}
    ELSE LET shoulder_config == st.shoulders[shoulder]
             blade_length == IF shoulder_config.blade_length = NoBladeLength
                             THEN st.default_blade_length
                             ELSE shoulder_config.blade_length
         IN  {[ok |-> TRUE, arks |-> arks] :
                  arks \in [1..count ->
                               mint_ark(st.naan, shoulder, blade_length,
                                        shoulder_config.uses_check_character)]}

\* mutant: the registry is searched for a key that begins the shoulder
mint_arks_PrefixLookup(st, shoulder, count) ==
    IF ~\E k \in DOMAIN st.shoulders : StartsWith(shoulder, k)
    THEN {[ok |-> FALSE, err |-> ShoulderNotFound]}
    ELSE LET key == CHOOSE k \in DOMAIN st.shoulders : StartsWith(shoulder, k)
             shoulder_config == st.shoulders[key]
             capped == Min(count, st.max_mint_count)
             blade_length == IF shoulder_config.blade_length = NoBladeLength
                             THEN st.default_blade_length
                             ELSE shoulder_config.blade_length
         IN  {[ok |-> TRUE, arks |-> arks] :
                  arks \in [1..capped ->
                               mint_ark(st.naan, shoulder, blade_length,
                                        shoulder_config.uses_check_character)]}

\* mint_arks: every result one call can return, Err(ShoulderNotFound) or
\* Ok(arks)
mint_arks(st, shoulder, count) ==
    IF shoulder \notin DOMAIN st.shoulders
    THEN {[ok |-> FALSE, err |-> ShoulderNotFound]}
    ELSE LET shoulder_config == st.shoulders[shoulder]
             capped == Min(count, st.max_mint_count)
             blade_length == IF shoulder_config.blade_length = NoBladeLength
                             THEN st.default_blade_length
                             ELSE shoulder_config.blade_length
         IN  {[ok |-> TRUE, arks |-> arks] :
                  arks \in [1..capped ->
                               mint_ark(st.naan, shoulder, blade_length,
                                        shoulder_config.uses_check_character)]}

\* registry keys: the empty string, a primordial shoulder, a shoulder without
\* a digit and a shoulder with a second digit
ShoulderNames == {<<>>, <<"b", "1">>, <<"b">>, <<"b", "1", "1">>}

\* the shoulders a request names: the keys and an upper-case spelling of one
RequestShoulders == ShoulderNames \cup {<<"B", "1">>}

\* the Shoulder fields minting reads
ShoulderConfigs(n) ==
    [uses_check_character : BOOLEAN, blade_length : {NoBladeLength} \cup (0..n)]

\* registries of at most one shoulder
Registries(n) ==
    {<<>>} \cup UNION {[{k} -> ShoulderConfigs(n)] : k \in ShoulderNames}

TEST_NAAN == <<"1", "2">>

InitMint ==
    /\ pc = "request"
    /\ state \in [set : {TRUE},
                  naan : {TEST_NAAN},
                  default_blade_length : 0..MaxBladeLength,
                  max_mint_count : 0..MaxMintCount,
                  shoulders : Registries(MaxBladeLength)]
    /\ request \in [set : {TRUE},
                    shoulder : RequestShoulders,
                    count : 0..(MaxMintCount + 1)]
    /\ response = NoResponse
    /\ input = <<>>
    /\ parsed = NoneArk
    /\ input2 = <<>>
    /\ parsed2 = NoneArk
    /\ ResolveIdle
    /\ CheckIdle
    /\ ApiIdle

\* mint_handler: mint_arks, then the MintResponse or the error
Mint ==
    /\ pc = "request"
    /\ \E result \in mint_arks(state, request.shoulder, request.count) :
           response' = IF result.ok
                       THEN [set |-> TRUE, ok |-> TRUE,
                             count |-> Len(result.arks), arks |-> result.arks]
                       ELSE [set |-> TRUE, ok |-> FALSE, err |-> result.err]
    /\ pc' = "minted"
    /\ UNCHANGED <<state, request>>
    /\ UNCHANGED apiVars
    /\ UNCHANGED parseVars
    /\ UNCHANGED checkVars
    /\ UNCHANGED resolveVars

\* parse_ark on one of the minted identifiers
ParseMinted ==
    /\ pc = "minted"
    /\ response.ok
    /\ \E i \in 1..Len(response.arks) :
           /\ input' = response.arks[i]
           /\ parsed' = parse_ark(response.arks[i])
    /\ pc' = "parsed"
    /\ UNCHANGED <<input2, parsed2>>
    /\ UNCHANGED mintVars
    /\ UNCHANGED apiVars
    /\ UNCHANGED checkVars
    /\ UNCHANGED resolveVars

NextMint == Mint \/ ParseMinted

SpecMint == InitMint /\ [][NextMint]_vars

(***************************************************************************)
(* validation.rs                                                           *)
(***************************************************************************)
\* is_betanumeric: every byte is one of BETANUMERIC
is_betanumeric(s) == \A i \in 1..Len(Bytes(s)) : Bytes(s)[i] \in BetanumericSet

\* ValidationResult::parse_error
parse_error ==
    [valid                 |-> FALSE,
     naan                  |-> None,
     shoulder              |-> None,
     blade                 |-> None,
     shoulder_registered   |-> None,
     has_check_character   |-> None,
     check_character_valid |-> None,
     error                 |-> Some("Failed to parse ARK structure"),
     warnings              |-> None]

\* mutant: an unregistered shoulder without a hint is validated as if the
\* hint said that there is a check character
ShouldValidateCheck_GuessTrue(st, shoulder, has_check_character) ==
    IF has_check_character.some THEN has_check_character
    ELSE IF shoulder \in DOMAIN st.shoulders
         THEN Some(st.shoulders[shoulder].uses_check_character)
         ELSE Some(TRUE)

\* should_validate_check of validate_ark: the hint, else the shoulder's
\* uses_check_character, else None
ShouldValidateCheck(st, shoulder, has_check_character) ==
    IF has_check_character.some THEN has_check_character
    ELSE IF shoulder \in DOMAIN st.shoulders
         THEN Some(st.shoulders[shoulder].uses_check_character)
         ELSE None

\* mutant: a blade of one character is checked too
CheckOutcome_NoLengthGuard(should_validate_check, a, shoulder_registered) ==
    IF should_validate_check
    THEN LET is_valid == validate_check_character(a.shoulder \o a.blade) = "true"
         IN  [check_character_valid |-> Some(is_valid),
              warnings |-> IF is_valid THEN None
                           ELSE Some(<<"Check character validation failed. Either there's an error or this ARK has no check character.">>)]
    ELSE [check_character_valid |-> Some(TRUE), warnings |-> None]

\* the pair (check_character_valid, warnings) of validate_ark
CheckOutcome(should_validate_check, a, shoulder_registered) ==
    IF should_validate_check /\ ByteLen(a.blade) > 1
    THEN LET identifier_for_check == a.shoulder \o a.blade
             is_valid == validate_check_character(identifier_for_check) = "true"
             warnings_list ==
                 (IF ~is_valid
                  THEN <<"Check character validation failed. Either there's an error or this ARK has no check character.">>
                  ELSE <<>>)
                 \o (IF ~shoulder_registered
                     THEN <<"Shoulder is not registered in the system.">>
                     ELSE <<>>)
         IN  [check_character_valid |-> Some(is_valid),
              warnings |-> IF warnings_list = <<>> THEN None ELSE Some(warnings_list)]
    ELSE IF ~should_validate_check
    THEN [check_character_valid |-> Some(TRUE), warnings |-> None]
    ELSE [check_character_valid |-> None,
          warnings |-> Some(<<"Blade too short for check character validation">>)]

\* mutant: the NAAN is not compared
NaanMatches_Always(a, st) == TRUE

\* naan_matches of validate_ark
NaanMatches(a, st) == a.naan = st.naan

validate_ark(st, ark, has_check_character) ==
    LET a == parse_ark(ark)
    IN  IF ~a.some THEN parse_error
        ELSE IF ~is_betanumeric(a.shoulder) \/ ~is_betanumeric(a.blade)
        THEN [valid                 |-> FALSE,
              naan                  |-> Some(a.naan),
              shoulder              |-> Some(a.shoulder),
              blade                 |-> Some(a.blade),
              shoulder_registered   |-> None,
              has_check_character   |-> None,
              check_character_valid |-> None,
              error                 |-> Some("Shoulder and blade must contain only betanumeric characters (0-9, b-z excluding vowels)"),
              warnings              |-> None]
        ELSE
        LET naan_matches == NaanMatches(a, st)
            naan_error == IF ~naan_matches
                          THEN Some(<<"NAAN ", a.naan, " does not match configured NAAN ", st.naan>>)
                          ELSE None
            shoulder_registered == a.shoulder \in DOMAIN st.shoulders
            should_validate_check == ShouldValidateCheck(st, a.shoulder, has_check_character)
        IN  IF ~should_validate_check.some
            THEN [valid                 |-> FALSE,
                  naan                  |-> Some(a.naan),
                  shoulder              |-> Some(a.shoulder),
                  blade                 |-> Some(a.blade),
                  shoulder_registered   |-> Some(FALSE),
                  has_check_character   |-> None,
                  check_character_valid |-> None,
                  error                 |-> Some("Unknown shoulder. Please specify has_check_character parameter to validate unregistered shoulders."),
                  warnings              |-> None]
            ELSE
            LET outcome == CheckOutcome(should_validate_check.value, a, shoulder_registered)
                check_ok == IF outcome.check_character_valid.some
                            THEN outcome.check_character_valid.value ELSE TRUE
            IN  [valid                 |-> naan_matches /\ check_ok /\ shoulder_registered,
                 naan                  |-> Some(a.naan),
                 shoulder              |-> Some(a.shoulder),
                 blade                 |-> Some(a.blade),
                 shoulder_registered   |-> Some(shoulder_registered),
                 has_check_character   |-> should_validate_check,
                 check_character_valid |-> outcome.check_character_valid,
                 error                 |-> naan_error,
                 warnings              |-> outcome.warnings]

\* the hints a validate request can carry
Hints == {None, Some(TRUE), Some(FALSE)}

OTHER_NAAN == <<"1", "3">>

\* what follows "ark:NAAN/" in the identifiers validated: a shoulder, an
\* alphabet letter and a digit, an upper-case letter, a separator
ValidateTokens == {<<"b", "1">>, <<"b">>, <<"0">>, <<"B">>, <<"/">>}

\* the identifiers validated: a NAAN, at most n tokens, as they are and with
\* the check character of the tokens appended; and a string without "ark:"
ValidateArks(n) ==
    {<<"b", "1">>} \cup
    UNION {{ARK_PREFIX \o naan \o <<"/">> \o Flatten(ts),
            ARK_PREFIX \o naan \o <<"/">> \o Flatten(ts)
                \o <<calculate_check_character(Flatten(ts))>>} :
               naan \in {TEST_NAAN, OTHER_NAAN}, ts \in TokenSeqs(ValidateTokens, n)}

InitValidate ==
    /\ pc = "request"
    /\ state \in [set : {TRUE},
                  naan : {TEST_NAAN},
                  default_blade_length : {1},
                  max_mint_count : {1},
                  shoulders : Registries(0)]
    /\ input \in ValidateArks(MaxValidateTokens)
    /\ hint \in Hints
    /\ validation = NoValidation
    /\ requests = <<>>
    /\ request = NoRequest
    /\ response = NoResponse
    /\ parsed = NoneArk
    /\ input2 = <<>>
    /\ parsed2 = NoneArk
    /\ ResolveIdle
    /\ CheckIdle

\* validate_ark on the identifier of the request; parsed keeps what
\* parse_ark made of it
ValidateArk ==
    /\ pc = "request"
    /\ parsed' = parse_ark(input)
    /\ validation' = [set |-> TRUE, result |-> validate_ark(state, input, hint)]
    /\ pc' = "validated"
    /\ UNCHANGED <<input, input2, parsed2, hint, requests>>
    /\ UNCHANGED mintVars
    /\ UNCHANGED checkVars
    /\ UNCHANGED resolveVars

NextValidate == ValidateArk

SpecValidate == InitValidate /\ [][NextValidate]_vars

(***************************************************************************)
(* The server: handlers.rs, error.rs and the shared state of run.rs.       *)
(* Requests arrive and are handled in any order.                           *)
(***************************************************************************)
InvalidArk == "InvalidArk"

InvalidNaan == "InvalidNaan"

\* impl IntoResponse for AppError
into_response(e) ==
    CASE e = ShoulderNotFound -> [status |-> 404, body |-> "Shoulder not found"]
      [] e = InvalidArk       -> [status |-> 400, body |-> "Invalid ARK format"]
      [] e = InvalidNaan      -> [status |-> 400, body |-> "NAAN does not match"]

SLASH_ARK == <<"/", "a", "r", "k", ":">>

\* mutant: the shoulder is looked up before the NAAN is compared
resolve_parsed_ShoulderFirst(st, parsed_ark) ==
    IF ~parsed_ark.some THEN Err(InvalidArk)
    ELSE IF parsed_ark.shoulder \notin DOMAIN st.shoulders THEN Err(ShoulderNotFound)
    ELSE IF parsed_ark.naan # st.naan THEN Err(InvalidNaan)
    ELSE [ok |-> TRUE, status |-> 302,
          location |-> resolve(st.shoulders[parsed_ark.shoulder].route_pattern,
                               parsed_ark)]

\* resolve_handler, once parse_ark has returned: the NAAN, then the shoulder,
\* then the redirect
resolve_parsed(st, parsed_ark) ==
    IF ~parsed_ark.some THEN Err(InvalidArk)
    ELSE IF parsed_ark.naan # st.naan THEN Err(InvalidNaan)
    ELSE IF parsed_ark.shoulder \notin DOMAIN st.shoulders THEN Err(ShoulderNotFound)
    ELSE [ok |-> TRUE, status |-> 302,
          location |-> resolve(st.shoulders[parsed_ark.shoulder].route_pattern,
                               parsed_ark)]

\* resolve_handler, from the path and query of the request URI
resolve_handler(st, uri) ==
    IF ~StartsWith(uri, SLASH_ARK) THEN Err(InvalidArk)
    ELSE resolve_parsed(st, parse_ark(ARK_PREFIX \o From(uri, Len(SLASH_ARK))))

\* Result<Response, AppError> as the client sees it
ResultResponse(r) ==
    IF r.ok THEN [status |-> r.status, location |-> r.location]
    ELSE into_response(r.err)

\* what the client of resolve_handler sees
ResolveResponse(st, uri) == ResultResponse(resolve_handler(st, uri))

\* validate_handler: one ArkValidationResult for each string of the request
validate_handler(st, arks, has_check_character) ==
    [results |-> [i \in 1..Len(arks) |->
                     [ark |-> arks[i],
                      result |-> validate_ark(st, arks[i], has_check_character)]]]

\* mint_handler: every response it can give
mint_handler(st, shoulder, count) ==
    {IF r.ok THEN [status |-> 200, count |-> Len(r.arks), arks |-> r.arks]
     ELSE into_response(r.err) : r \in mint_arks(st, shoulder, count)}

\* the ShoulderInfo values info_handler can build for one shoulder
ShoulderInfos(st, shoulder) ==
    LET config == st.shoulders[shoulder]
        blade_length == IF config.blade_length = NoBladeLength
                        THEN st.default_blade_length ELSE config.blade_length
    IN  {[shoulder |-> shoulder,
          uses_check_character |-> config.uses_check_character,
          blade_length |-> blade_length,
          example_ark |-> e] :
             e \in mint_ark(st.naan, shoulder, blade_length, config.uses_check_character)}

\* info_handler: every response it can give; the shoulders come in the
\* iteration order of the HashMap, which is any order
info_handler(st) ==
    {[status |-> 200, naan |-> st.naan, shoulders |-> infos] :
         infos \in {s \in [1..Cardinality(DOMAIN st.shoulders) ->
                              UNION {ShoulderInfos(st, k) : k \in DOMAIN st.shoulders}] :
                        \A i, j \in DOMAIN s : i # j => s[i].shoulder # s[j].shoulder}}

\* mutant: minting uses up the cap
StateAfter_MintLowersCap(st, handler) ==
    IF handler = "mint" /\ st.max_mint_count > 0
    THEN [st EXCEPT !.max_mint_count = @ - 1]
    ELSE st

\* the AppState after a handler has run: handlers hold an Arc<AppState> and
\* none assigns to a field of it
StateAfter(st, handler) == st

\* route patterns of the shoulders served
PATTERN_APPEND == HTTPS \o SCHEME_SEP \o <<"h", "/">>

PATTERN_VALUE == HTTPS \o SCHEME_SEP \o <<"g", "/">> \o D_VALUE

\* the keys of the registry served: a primordial shoulder and one with a
\* second digit
ServeShoulders == {<<"b", "1">>, <<"b", "1", "1">>}

\* the Shoulder value of each key
ServeConfig(shoulder) ==
    IF shoulder = <<"b", "1">>
    THEN [route_pattern |-> PATTERN_APPEND, uses_check_character |-> TRUE,
          blade_length |-> NoBladeLength]
    ELSE [route_pattern |-> PATTERN_VALUE, uses_check_character |-> FALSE,
          blade_length |-> 0]

\* the registries served: any of the keys
ServeRegistries == {[k \in K |-> ServeConfig(k)] : K \in SUBSET ServeShoulders}

\* the hints of the validate requests served
ServeHints == {None, Some(FALSE)}

\* identifiers of requests: one without '/', one of an unregistered shoulder,
\* one that resolves, and the last with a hyphen in the blade and in the NAAN
ServeArks ==
    {ARK_PREFIX \o <<"1", "2">>,
     ARK_PREFIX \o <<"1", "2", "/", "b", "0", "b">>,
     ARK_PREFIX \o <<"1", "2", "/", "b", "1", "b">>,
     ARK_PREFIX \o <<"1", "2", "/", "b", "1", "-", "b">>,
     ARK_PREFIX \o <<"1", "-", "2", "/", "b", "1", "b">>}

\* the identifiers minted so far
MintedArks ==
    UNION {{requests[i].response.arks[k] : k \in 1..Len(requests[i].response.arks)} :
               i \in {j \in 1..Len(requests) :
                          /\ requests[j].kind = "mint"
                          /\ requests[j].done
                          /\ requests[j].response.status = 200}}

NewRequest(handler, shoulder, count, ark, has_check_character) ==
    [kind |-> handler, shoulder |-> shoulder, count |-> count, ark |-> ark,
     hint |-> has_check_character, done |-> FALSE, response |-> NoResponse]

InitServe ==
    /\ pc = "serving"
    /\ state \in [set : {TRUE},
                  naan : {TEST_NAAN},
                  default_blade_length : {1},
                  max_mint_count : {1},
                  shoulders : ServeRegistries]
    /\ requests = <<>>
    /\ hint = None
    /\ validation = NoValidation
    /\ request = NoRequest
    /\ response = NoResponse
    /\ ParseIdle
    /\ ResolveIdle
    /\ CheckIdle

\* a request arrives: POST /api/v1/mint
ReceiveMint ==
    /\ Len(requests) < MaxRequests
    /\ \E shoulder \in ServeShoulders, count \in {state.max_mint_count + 1} :
           requests' = Append(requests, NewRequest("mint", shoulder, count, <<>>, None))
    /\ UNCHANGED <<pc, state, request, response, hint, validation>>
    /\ UNCHANGED parseVars
    /\ UNCHANGED checkVars
    /\ UNCHANGED resolveVars

\* a request arrives: POST /api/v1/validate, for a known identifier or one
\* minted before
ReceiveValidate ==
    /\ Len(requests) < MaxRequests
    /\ \E ark \in ServeArks \cup MintedArks, h \in ServeHints :
           requests' = Append(requests, NewRequest("validate", <<>>, 0, ark, h))
    /\ UNCHANGED <<pc, state, request, response, hint, validation>>
    /\ UNCHANGED parseVars
    /\ UNCHANGED checkVars
    /\ UNCHANGED resolveVars

\* a request arrives: GET /ark:..., for a known identifier or one minted
\* before
ReceiveResolve ==
    /\ Len(requests) < MaxRequests
    /\ \E ark \in ServeArks \cup MintedArks :
           requests' = Append(requests, NewRequest("resolve", <<>>, 0, ark, None))
    /\ UNCHANGED <<pc, state, request, response, hint, validation>>
    /\ UNCHANGED parseVars
    /\ UNCHANGED checkVars
    /\ UNCHANGED resolveVars

\* a request arrives: GET /api/v1/info
ReceiveInfo ==
    /\ Len(requests) < MaxRequests
    /\ requests' = Append(requests, NewRequest("info", <<>>, 0, <<>>, None))
    /\ UNCHANGED <<pc, state, request, response, hint, validation>>
    /\ UNCHANGED parseVars
    /\ UNCHANGED checkVars
    /\ UNCHANGED resolveVars

\* mint_handler runs for a request that waits
HandleMint ==
    /\ \E i \in 1..Len(requests) :
           /\ requests[i].kind = "mint"
           /\ ~requests[i].done
           /\ \E r \in mint_handler(state, requests[i].shoulder, requests[i].count) :
                  requests' = [requests EXCEPT ![i].done = TRUE, ![i].response = r]
    /\ state' = StateAfter(state, "mint")
    /\ UNCHANGED <<pc, request, response, hint, validation>>
    /\ UNCHANGED parseVars
    /\ UNCHANGED checkVars
    /\ UNCHANGED resolveVars

\* validate_handler runs for a request that waits
HandleValidate ==
    /\ \E i \in 1..Len(requests) :
           /\ requests[i].kind = "validate"
           /\ ~requests[i].done
           /\ requests' =
                  [requests EXCEPT
                      ![i].done = TRUE,
                      ![i].response =
                          validate_handler(state, <<requests[i].ark>>, requests[i].hint)]
    /\ state' = StateAfter(state, "validate")
    /\ UNCHANGED <<pc, request, response, hint, validation>>
    /\ UNCHANGED parseVars
    /\ UNCHANGED checkVars
    /\ UNCHANGED resolveVars

\* resolve_handler runs for a request that waits
HandleResolve ==
    /\ \E i \in 1..Len(requests) :
           /\ requests[i].kind = "resolve"
           /\ ~requests[i].done
           /\ requests' =
                  [requests EXCEPT
                      ![i].done = TRUE,
                      ![i].response = ResolveResponse(state, <<"/">> \o requests[i].ark)]
    /\ state' = StateAfter(state, "resolve")
    /\ UNCHANGED <<pc, request, response, hint, validation>>
    /\ UNCHANGED parseVars
    /\ UNCHANGED checkVars
    /\ UNCHANGED resolveVars

\* info_handler runs for a request that waits
HandleInfo ==
    /\ \E i \in 1..Len(requests) :
           /\ requests[i].kind = "info"
           /\ ~requests[i].done
           /\ \E r \in info_handler(state) :
                  requests' = [requests EXCEPT ![i].done = TRUE, ![i].response = r]
    /\ state' = StateAfter(state, "info")
    /\ UNCHANGED <<pc, request, response, hint, validation>>
    /\ UNCHANGED parseVars
    /\ UNCHANGED checkVars
    /\ UNCHANGED resolveVars

NextServe ==
    \/ ReceiveMint
    \/ ReceiveValidate
    \/ ReceiveResolve
    \/ ReceiveInfo
    \/ HandleMint
    \/ HandleValidate
    \/ HandleResolve
    \/ HandleInfo

SpecServe == InitServe /\ [][NextServe]_vars

(***************************************************************************)
(* Properties of the check character                                       *)
(***************************************************************************)
\* the ordinal of a byte: its place in the alphabet with letter case folded,
\* 0 for a byte outside the alphabet
OrdinalOf(b) ==
    IF ToAsciiLowercase(b) \in BetanumericSet
    THEN (CHOOSE i \in 1..Radix : BETANUMERIC[i] = ToAsciiLowercase(b)) - 1
    ELSE 0

\* sum over the 1-indexed positions i of i * ordinal(s_i)
RECURSIVE WeightedSum(_)
WeightedSum(bytes) ==
    IF Len(bytes) = 0 THEN 0
    ELSE WeightedSum(SubSeq(bytes, 1, Len(bytes) - 1))
            + Len(bytes) * OrdinalOf(bytes[Len(bytes)])

\* C6: calculate_check_character(s) is the alphabet symbol at index
\* (sum of i * ordinal(s_i)) mod 29 over the 1-indexed (byte) positions of s,
\* and is the same for the upper-cased and the lower-cased input.
C6_ChecksumFormula ==
    checks.set =>
        /\ checks.given = BETANUMERIC[(WeightedSum(Bytes(identifier)) % 29) + 1]
        /\ checks.upper = checks.lower

\* C6 witness: the checksum of a string holding an upper-case letter of the
\* alphabet, whose ordinal is not 0
C6_Witness ==
    /\ checks.set
    /\ \E i \in 1..Len(identifier) :
          identifier[i] \in UpperLetters /\ OrdinalOf(identifier[i]) # 0
    /\ checks.given # "0"

C9_ShortIsFalseElseCompares ==
    (pc = "done" /\ kind = "raw") =>
        IF Len(candidate) < 2 THEN valid = "false"
        ELSE LET prefix == SubSeq(candidate, 1, Len(candidate) - 1)
                 claimed == candidate[Len(candidate)]
                 sum == BETANUMERIC[(WeightedSum(Bytes(prefix)) % 29) + 1]
             IN  valid = (IF ToAsciiLowercase(claimed) = sum THEN "true" ELSE "false")

(***************************************************************************)
(* Properties of Shoulder::resolve                                         *)
(***************************************************************************)
\* resolve has returned for a pattern that passed validate_route_pattern
Resolved ==
    /\ pc = "resolved"
    /\ load.set
    /\ load.result.ok
    /\ location # <<>>

\* C10, as stated: for every route pattern that passes load-time validation
\* and every parsed identifier, what resolve returns is never a URL whose
\* scheme is outside {http, https}.
C10_SchemeAlwaysHttp ==
    Resolved =>
        (Url_parse(location).ok => Url_parse(location).scheme \in {HTTP, HTTPS})

\* C10, amended: for every route pattern that passes load-time validation
\* and every parsed identifier, resolve returns either a URL that parses with
\* the scheme http or https, or the inert value that begins with
\* "about:blank#error=" (a URL of the scheme about).
C10_HttpOrInertAboutBlank ==
    Resolved =>
        \/ /\ Url_parse(location).ok
           /\ Url_parse(location).scheme \in {HTTP, HTTPS}
        \/ /\ StartsWith(location, ABOUT_BLANK_ERROR)
           /\ ~validate_redirect_url(apply_template(route_pattern, parsed)).ok

\* a loaded pattern with template variables resolved an identifier to an
\* https URL
C10_Witness ==
    /\ Resolved
    /\ parsed.some
    /\ Len(parsed.naan) > 0
    /\ has_template_vars(route_pattern)
    /\ Url_parse(location).ok
    /\ Url_parse(location).scheme = HTTPS

\* the URL the route pattern itself parses to, its variables replaced by the
\* placeholder as load-time validation does
PatternUrl == Url_parse(TestUrl(route_pattern))

\* C11: for every route pattern that passes load-time validation and every
\* parsed identifier, an http/https URL returned by resolve has the host and
\* the port of the route pattern itself, whatever the identifier holds.
C11_HostIsThePatternsHost ==
    (Resolved /\ Url_parse(location).ok
            /\ Url_parse(location).scheme \in {HTTP, HTTPS}) =>
        /\ PatternUrl.ok
        /\ Url_parse(location).host = PatternUrl.host
        /\ Url_parse(location).port = PatternUrl.port

\* a placeholder sits in the scheme or the host of the URL the pattern
\* parses to
PlaceholderInAuthority ==
    /\ TestUrl(route_pattern) # route_pattern
    /\ PatternUrl.ok
    /\ \/ ContainsStr(PatternUrl.scheme, PLACEHOLDER)
       \/ ContainsStr(PatternUrl.host, PLACEHOLDER)

\* C12: load-time validation rejects every route pattern in which a
\* placeholder sits inside the scheme or the host of the URL the pattern
\* parses to, also when the pattern is written without "://"; loading such a
\* pattern fails.
C12_PlaceholderInAuthorityRejected ==
    (load.set /\ PlaceholderInAuthority) =>
        /\ ~load.result.ok
        /\ pc = "failed"

(***************************************************************************)
(* Properties of template expansion                                        *)
(***************************************************************************)
\* resolve has returned for the pattern and the parsed identifier
Expanded == pc = "expanded"

\* the substituted URL fails to parse or has a scheme other than http/https
TargetRefused ==
    \/ ~Url_parse(target).ok
    \/ Url_parse(target).scheme \notin {HTTP, HTTPS}

\* the error message of the refusal
RefusalMessage ==
    IF ~Url_parse(target).ok
    THEN MSG_INVALID_REDIRECT \o Url_parse(target).err
    ELSE MSG_REDIRECT_SCHEME \o Url_parse(target).scheme

\* C13: when the fully substituted URL fails to parse or has a scheme other
\* than http/https, resolve returns "about:blank#error=" followed by the
\* URL-encoded error message; the value is a function of the substituted
\* URL, so it is the same for the same pattern and identifier.
C13_RefusedTargetGivesInertValue ==
    (Expanded /\ TargetRefused) =>
        location = ABOUT_BLANK_ERROR \o urlencoding_encode(RefusalMessage)

\* C13 witness: a substituted URL of the scheme ftp was refused
C13_Witness ==
    /\ Expanded
    /\ Url_parse(target).ok
    /\ Url_parse(target).scheme = FTP
    /\ StartsWith(location, ABOUT_BLANK_ERROR)

\* what a slot of the pattern stands for, given the parsed identifier and
\* the expansions of content and value
SlotText(slot, a, content, value) ==
    CASE slot \in {V_PID, D_PID}         -> a.original
      [] slot \in {V_SCHEME, D_SCHEME}   -> <<"a", "r", "k">>
      [] slot \in {V_CONTENT, D_CONTENT} -> content
      [] slot \in {V_PREFIX, D_PREFIX, V_NAAN} -> a.naan
      [] slot \in {V_VALUE, D_VALUE}     -> value
      [] OTHER                           -> slot

\* C14: a route pattern that contains none of the template variables gets
\* the original identifier appended verbatim; in any other pattern every
\* occurrence of every variable, and nothing else, is replaced by what the
\* variable stands for.
C14_AppendOrSubstituteEveryVariable ==
    Expanded =>
        \A b \in TemplateBases, s1 \in TemplateSlots, s2 \in TemplateSlots :
            route_pattern = BuildPattern(b, s1, s2) =>
                target =
                    IF s1 \notin TemplateVars /\ s2 \notin TemplateVars
                    THEN route_pattern \o parsed.original
                    ELSE b \o SlotText(s1, parsed, ContentOf(parsed), ValueOf(parsed))
                           \o <<"/">>
                           \o SlotText(s2, parsed, ContentOf(parsed), ValueOf(parsed))

\* what the variable value is said to expand to
ValueText(a) ==
    IF a.qualifier = <<>> THEN a.shoulder \o a.blade
    ELSE IF Head(a.qualifier) = "?" THEN a.shoulder \o a.blade \o a.qualifier
    ELSE a.shoulder \o a.blade \o <<"/">> \o a.qualifier

\* C15: in a pattern whose only variable is value, in either syntax, the
\* variable expands to shoulder ++ blade when the qualifier is empty, to
\* shoulder ++ blade ++ qualifier when the qualifier begins with '?', and to
\* shoulder ++ blade ++ "/" ++ qualifier otherwise.
C15_ValueExpansion ==
    Expanded =>
        \A b \in TemplateBases, s1 \in {V_VALUE, D_VALUE},
           s2 \in {<<>>, UNKNOWN_VAR, V_VALUE, D_VALUE} :
            route_pattern = BuildPattern(b, s1, s2) =>
                target = b \o ValueText(parsed) \o <<"/">>
                           \o SlotText(s2, parsed, <<>>, ValueText(parsed))

\* C15 witness: value was expanded for a qualifier that begins with '?'
C15_Witness ==
    /\ Expanded
    /\ \E b \in TemplateBases : route_pattern = BuildPattern(b, D_VALUE, <<>>)
    /\ Len(parsed.qualifier) > 1
    /\ Head(parsed.qualifier) = "?"

\* what the variable content is said to expand to
ContentText(a) ==
    IF a.qualifier = <<>> THEN a.naan \o <<"/">> \o a.shoulder \o a.blade
    ELSE a.naan \o <<"/">> \o a.shoulder \o a.blade \o <<"/">> \o a.qualifier

\* C16: in a pattern whose only variable is content, in either syntax, the
\* variable expands to naan ++ "/" ++ shoulder ++ blade when the qualifier is
\* empty and to naan ++ "/" ++ shoulder ++ blade ++ "/" ++ qualifier
\* otherwise, and for an identifier with a qualifier "ark:" ++ content is the
\* identifier.  Identifiers that hold variable text are left to C14.
C16_ContentExpansionReproducesIdentifier ==
    (Expanded /\ ~Contains(input, "{")) =>
        \A b \in TemplateBases, s1 \in {V_CONTENT, D_CONTENT} :
            route_pattern = BuildPattern(b, s1, <<>>) =>
                /\ target = b \o ContentText(parsed) \o <<"/">>
                /\ parsed.qualifier # <<>> =>
                       \E rest \in {From(target, Len(b))} :
                           ARK_PREFIX \o SubSeq(rest, 1, Len(rest) - 1)
                               = parsed.original

(***************************************************************************)
(* Properties of minting                                                   *)
(***************************************************************************)
Minted == pc \in {"minted", "parsed"} /\ response.set /\ response.ok

\* the blade length the request was minted with
RequestedBladeLength ==
    LET shoulder_config == state.shoulders[request.shoulder]
    IN  IF shoulder_config.blade_length = NoBladeLength
        THEN state.default_blade_length
        ELSE shoulder_config.blade_length

\* C17: parsing a minted identifier succeeds, gives back the shoulder it was
\* minted under, and a blade of the requested length, one longer when the
\* shoulder uses the check character.
C17_MintThenParse ==
    (pc = "parsed" /\ response.set /\ response.ok) =>
        /\ parsed.some
        /\ parsed.shoulder = request.shoulder
        /\ Len(parsed.blade) =
               RequestedBladeLength
               + (IF state.shoulders[request.shoulder].uses_check_character
                  THEN 1 ELSE 0)

\* the text every identifier of the response begins with
MintPrefix == ARK_PREFIX \o state.naan \o <<"/">> \o request.shoulder

\* the blade_length characters that follow the shoulder in a minted identifier
BladeOf(a) == Slice(a, Len(MintPrefix), Len(MintPrefix) + RequestedBladeLength)

UsesCheck == state.shoulders[request.shoulder].uses_check_character

\* the shape of a minted identifier: prefix, blade_length alphabet characters,
\* and the checksum of shoulder ++ blade when the shoulder uses one
MintedShape(a) ==
    LET B == BladeOf(a)
    IN  /\ Len(a) >= Len(MintPrefix) + RequestedBladeLength
        /\ StartsWith(a, MintPrefix)
        /\ Len(B) = RequestedBladeLength
        /\ \A i \in 1..Len(B) : B[i] \in BetanumericSet
        /\ IF UsesCheck
           THEN a = MintPrefix \o B \o <<calculate_check_character(request.shoulder \o B)>>
           ELSE a = MintPrefix \o B

\* C18 as stated: every minted identifier has the shape above, and with a
\* check character shoulder ++ B ++ c always validates.
C18_MintedShapeAndCheckValidates ==
    Minted =>
        \A i \in 1..Len(response.arks) :
            LET a == response.arks[i]
            IN  /\ MintedShape(a)
                /\ UsesCheck =>
                       validate_check_character(From(a, Len(MintPrefix) - Len(request.shoulder))) = "true"

\* C18, amended: every minted identifier has the shape above; shoulder ++ B ++ c
\* validates when shoulder ++ B is not empty, and is refused when it is empty.
C18_MintedShapeAndCheckValidatesNonEmpty ==
    Minted =>
        \A i \in 1..Len(response.arks) :
            LET a == response.arks[i]
                checked == From(a, Len(MintPrefix) - Len(request.shoulder))
            IN  /\ MintedShape(a)
                /\ UsesCheck =>
                       validate_check_character(checked) =
                           (IF Len(checked) >= 2 THEN "true" ELSE "false")

C18_Witness ==
    /\ Minted
    /\ UsesCheck
    /\ Len(response.arks) > 1
    /\ RequestedBladeLength > 1
    /\ request.shoulder # <<>>
    /\ response.arks[1] # response.arks[2]

Registered == request.set /\ request.shoulder \in DOMAIN state.shoulders

\* C19: for a registered shoulder the request succeeds with exactly
\* min(count, max_mint_count) identifiers, whatever the count; each has the
\* shoulder's own blade length when one is set and the default otherwise; the
\* count field of the response is the number of identifiers.
C19_CappedCountAndBladeLength ==
    (pc \in {"minted", "parsed"} /\ Registered) =>
        /\ response.ok
        /\ Len(response.arks) =
               (IF request.count <= state.max_mint_count
                THEN request.count ELSE state.max_mint_count)
        /\ response.count = Len(response.arks)
        /\ \A i \in 1..Len(response.arks) :
               LET own == state.shoulders[request.shoulder].blade_length
                   blade_length == IF own # NoBladeLength THEN own
                                   ELSE state.default_blade_length
               IN  Len(response.arks[i]) =
                       Len(ARK_PREFIX) + Len(state.naan) + 1 + Len(request.shoulder)
                       + blade_length + (IF UsesCheck THEN 1 ELSE 0)

C19_Witness ==
    /\ pc = "minted"
    /\ Registered
    /\ request.count > state.max_mint_count
    /\ Len(response.arks) > 1
    /\ state.shoulders[request.shoulder].blade_length \notin
           {NoBladeLength, state.default_blade_length}

\* C20: a request for a shoulder that is not, character for character, a key
\* of the registry is answered with ShoulderNotFound and no identifier,
\* whatever the count.
C20_UnknownShoulderMintsNothing ==
    (pc # "request" /\ request.set /\ ~Registered) =>
        /\ pc = "minted"
        /\ ~response.ok
        /\ response.err = ShoulderNotFound
        /\ "arks" \notin DOMAIN response

\* the request names a shoulder that only extends a registered key, with a
\* count above the cap
C20_Witness ==
    /\ pc = "minted"
    /\ request.set
    /\ ~Registered
    /\ \E k \in DOMAIN state.shoulders : k # <<>> /\ StartsWith(request.shoulder, k)
    /\ request.count > state.max_mint_count
    /\ ~response.ok

(***************************************************************************)
(* Properties of the parts taken together                                  *)
(***************************************************************************)
\* the qualifier with the separator that stood before it, as the claim
\* rebuilds it
QualifierText(a) ==
    IF Len(a.qualifier) = 0 THEN <<>>
    ELSE IF a.qualifier[1] = "?" THEN a.qualifier
    ELSE <<"/">> \o a.qualifier

\* C30: parsing is lossless: original is "ark:" ++ naan ++ "/" ++ shoulder ++
\* blade ++ q, with q empty for an empty qualifier, the qualifier itself when
\* it begins with '?', and "/" ++ qualifier otherwise; and the `value`
\* variable is the text of original after "ark:" ++ naan ++ "/".
C30_ParseIsLossless ==
    (pc = "done" /\ parsed.some) =>
        /\ parsed.original =
               ARK_PREFIX \o parsed.naan \o <<"/">> \o parsed.shoulder
                   \o parsed.blade \o QualifierText(parsed)
        /\ ValueOf(parsed) =
               From(parsed.original, Len(ARK_PREFIX) + Len(parsed.naan) + 1)

\* C29: expansion is one simultaneous substitution: in a pattern that is
\* expanded as a template each placeholder is replaced once by its value and
\* text that came from the identifier is never expanded again.
C29_SingleSimultaneousSubstitution ==
    (Expanded /\ has_template_vars(route_pattern)) =>
        \E b \in TemplateBases, s1 \in TemplateSlots, s2 \in TemplateSlots :
            /\ route_pattern = BuildPattern(b, s1, s2)
            /\ target = b \o SlotText(s1, parsed, ContentOf(parsed), ValueOf(parsed))
                          \o <<"/">>
                          \o SlotText(s2, parsed, ContentOf(parsed), ValueOf(parsed))

(***************************************************************************)
(* Properties of validate_ark                                              *)
(***************************************************************************)
Validated == pc = "validated" /\ validation.set

\* the identifier parses and its shoulder and blade are betanumeric
WellFormed ==
    /\ parsed.some
    /\ IsBetanumeric(parsed.shoulder)
    /\ IsBetanumeric(parsed.blade)

ShoulderKnown == parsed.some /\ parsed.shoulder \in DOMAIN state.shoulders

\* C22: a parseable betanumeric identifier whose shoulder is not registered,
\* validated without a hint, is invalid with an error, is reported as not
\* registered, and carries neither has_check_character nor
\* check_character_valid.
C22_UnknownShoulderNoHintRefused ==
    (Validated /\ WellFormed /\ ~ShoulderKnown /\ hint = None) =>
        /\ validation.result.valid = FALSE
        /\ validation.result.error.some
        /\ validation.result.shoulder_registered = Some(FALSE)
        /\ validation.result.has_check_character = None
        /\ validation.result.check_character_valid = None

\* such an identifier whose last character is the right check character
C22_Witness ==
    /\ Validated
    /\ WellFormed
    /\ ~ShoulderKnown
    /\ hint = None
    /\ parsed.naan = state.naan
    /\ validate_check_character(parsed.shoulder \o parsed.blade) = "true"
    /\ state.shoulders # <<>>

\* check-character validation is asked for: by the hint, or without a hint
\* by the configuration of the registered shoulder
CheckRequested ==
    \/ hint = Some(TRUE)
    \/ hint = None /\ ShoulderKnown
           /\ state.shoulders[parsed.shoulder].uses_check_character

BLADE_TOO_SHORT == "Blade too short for check character validation"

NotChecked ==
    \/ hint = Some(FALSE)
    \/ hint = None /\ ShoulderKnown
           /\ ~state.shoulders[parsed.shoulder].uses_check_character
    \/ Len(parsed.blade) <= 1

\* the last character of shoulder ++ blade is the check character of the
\* characters before it
CheckCorrect ==
    LET id == parsed.shoulder \o parsed.blade
    IN  /\ Len(id) >= 2
        /\ id[Len(id)] = calculate_check_character(SubSeq(id, 1, Len(id) - 1))

\* C25: validate_ark says valid exactly when the string parses, shoulder and
\* blade are betanumeric, the NAAN is the configured one, the shoulder is
\* registered, and the check character is not checked or is correct.
C25_ValidExactlyWhen ==
    Validated =>
        (validation.result.valid <=>
            /\ WellFormed
            /\ parsed.naan = state.naan
            /\ ShoulderKnown
            /\ (NotChecked \/ CheckCorrect))

\* valid because the hint overrides the shoulder: the shoulder uses the check
\* character, the last character is wrong, and the hint says not to check
C25_Witness ==
    /\ Validated
    /\ validation.result.valid
    /\ ShoulderKnown
    /\ state.shoulders[parsed.shoulder].uses_check_character
    /\ hint = Some(FALSE)
    /\ Len(parsed.blade) > 1
    /\ ~CheckCorrect

Done(handler) ==
    {i \in 1..Len(requests) : requests[i].kind = handler /\ requests[i].done}

\* C21: the resolve handler decides in this order: a string that does not
\* parse gives 400 "Invalid ARK format"; else a NAAN other than the
\* configured one gives 400 "NAAN does not match", registered shoulder or
\* not; else an unregistered shoulder gives 404 "Shoulder not found"; else
\* the answer is 302 with Location the output of the shoulder's resolve.
C21_ResolveHandlerOrder ==
    \A i \in Done("resolve") :
        LET a == parse_ark(requests[i].ark)
            r == requests[i].response
        IN  IF ~a.some
            THEN r = [status |-> 400, body |-> "Invalid ARK format"]
            ELSE IF a.naan # state.naan
            THEN r = [status |-> 400, body |-> "NAAN does not match"]
            ELSE IF a.shoulder \notin DOMAIN state.shoulders
            THEN r = [status |-> 404, body |-> "Shoulder not found"]
            ELSE /\ r.status = 302
                 /\ r.location = resolve(state.shoulders[a.shoulder].route_pattern, a)

\* answered requests of both failures: one whose NAAN differs and whose
\* shoulder is not registered either, and one that fails on the shoulder alone
C21_Witness ==
    /\ \E i \in Done("resolve") :
           /\ parse_ark(requests[i].ark).some
           /\ parse_ark(requests[i].ark).naan # state.naan
           /\ parse_ark(requests[i].ark).shoulder \notin DOMAIN state.shoulders
           /\ requests[i].response.status = 400
    /\ \E i \in Done("resolve") : requests[i].response.status = 404

\* what a validate or resolve request gets when it is the only request
AloneResponse(r) ==
    IF r.kind = "validate"
    THEN validate_handler(state, <<r.ark>>, r.hint)
    ELSE ResolveResponse(state, <<"/">> \o r.ark)

EqualIdentifiers(i, j) ==
    /\ parse_ark(requests[i].ark).some
    /\ parse_ark(requests[j].ark).some
    /\ ArkEq(parse_ark(requests[i].ark), parse_ark(requests[j].ark))

\* C28: strings that parse to equal identifiers are treated alike: with the
\* same hint validate_ark gives both the same valid flag, and the resolve
\* handler redirects both or fails for both.
C28_EqualIdentifiersTreatedAlike ==
    /\ \A i, j \in Done("validate") :
           (EqualIdentifiers(i, j) /\ requests[i].hint = requests[j].hint) =>
               requests[i].response.results[1].result.valid
                   = requests[j].response.results[1].result.valid
    /\ \A i, j \in Done("resolve") :
           EqualIdentifiers(i, j) =>
               ((requests[i].response.status = 302)
                    <=> (requests[j].response.status = 302))

\* the answered mint requests that returned identifiers
MintedBy ==
    {i \in Done("mint") : requests[i].response.status = 200}

\* C27: every identifier a mint request returned is valid for validate_ark
\* without a hint under the same state, and the resolve handler redirects it
\* with the configuration of the shoulder it was minted under.
C27_MintedIdentifiersValidAndResolvable ==
    \A m \in MintedBy :
        \A k \in 1..Len(requests[m].response.arks) :
            LET a == requests[m].response.arks[k]
            IN  /\ \A i \in Done("validate") :
                       (requests[i].ark = a /\ requests[i].hint = None) =>
                           requests[i].response.results[1].result.valid
                /\ \A i \in Done("resolve") :
                       requests[i].ark = a =>
                           /\ requests[i].response.status = 302
                           /\ requests[i].response.location =
                                  resolve(state.shoulders[requests[m].shoulder].route_pattern,
                                          parse_ark(a))

====
